---- MODULE Spec2Model ----
(***************************************************************************)
(* Interpreter discovery (crates/uv-interpreter/src/discovery.rs) and      *)
(* project/workspace discovery (crates/uv-requirements/src/discovery.rs).  *)
(*                                                                         *)
(* Rust values are written as follows.  Option<T> is a sequence of length  *)
(* at most one (<<>> is None, <<x>> is Some(x)), which is also what        *)
(* Option::into_iter yields.  Result<T, E> is a record with a field ok.    *)
(* Enum values are tuples whose first element is the variant name.         *)
(* Strings are TLA+ strings; format!() is string concatenation.            *)
(***************************************************************************)
EXTENDS Integers, Sequences, FiniteSets, TLC

VARIABLES
    world,      \* the environment the code runs in: env vars, file system, collaborators
    op,         \* the top-level call under way and its arguments
    pc,         \* position inside find_interpreter
    request,    \* find_interpreter's argument `request`
    sources,    \* find_interpreter's argument `sources`
    stream,     \* the items of the iterator built by python_executables, in order
    pos,        \* how many items of `stream` the consumer has pulled
    invoked,    \* the sources whose producer function has been called
    queried,    \* the executables handed to Interpreter::query, in order
    result,     \* the value returned by the last find_interpreter call
    pass,       \* which find_interpreter call of the top-level operation is under way
    final,      \* the value returned by the top-level call
    fs,         \* workspace discovery: the directory tree and its manifests
    wpc,        \* workspace discovery: position inside discover / from_pyproject_toml
    wproject,   \* workspace discovery: what read_project returned
    wworkspace, \* workspace discovery: the local `workspace` of from_project
    wresult     \* workspace discovery: the value returned by the call

ivars == <<world, op, pc, request, sources, stream, pos, invoked, queried, result, pass, final>>
wvars == <<fs, wpc, wproject, wworkspace, wresult>>
vars == <<world, op, pc, request, sources, stream, pos, invoked, queried, result, pass, final,
          fs, wpc, wproject, wworkspace, wresult>>

----------------------------------------------------------------------------
(* Generic helpers for Option and iterator adaptors                        *)

None == <<>>
Some(x) == <<x>>

RECURSIVE Flatten(_)
\* Iterator::flatten over a sequence of sequences
Flatten(ss) == IF ss = <<>> THEN <<>> ELSE Head(ss) \o Flatten(Tail(ss))

\* Iterator::map
MapSeq(f(_), s) == [i \in 1..Len(s) |-> f(s[i])]

\* Iterator::flat_map
FlatMap(f(_), s) == Flatten(MapSeq(f, s))

Range(s) == {s[i] : i \in 1..Len(s)}

----------------------------------------------------------------------------
(* InterpreterSource, SourceSelector, SystemPython                         *)

ProvidedPath == "ProvidedPath"
ActiveEnvironment == "ActiveEnvironment"
DiscoveredEnvironment == "DiscoveredEnvironment"
SearchPath == "SearchPath"
PyLauncher == "PyLauncher"
ManagedToolchain == "ManagedToolchain"

InterpreterSource ==
    {ProvidedPath, ActiveEnvironment, DiscoveredEnvironment, SearchPath, PyLauncher,
     ManagedToolchain}

\* SourceSelector::All and SourceSelector::Some(set)
All == <<"All">>
SomeSources(set) == <<"Some", set>>

\* a panic of the running thread, with its message
Panic(message) == <<"panic", message>>

\* SourceSelector::from_sources: `assert!(!inner.is_empty(), ..)` panics on an empty set
from_sources(set) ==
    IF set = {} THEN Panic("Source selectors cannot be empty") ELSE SomeSources(set)

\* SourceSelector::contains
contains(selector, source) ==
    IF selector[1] = "All" THEN TRUE ELSE source \in selector[2]

\* SourceSelector::virtualenvs
virtualenvs == from_sources({DiscoveredEnvironment, ActiveEnvironment})

\* variant of from_env that looks at UV_TEST_PYTHON_PATH before UV_FORCE_MANAGED_PYTHON
from_env_test_path_first(system) ==
    IF world.UV_TEST_PYTHON_PATH # None
    THEN <<"Some", {ActiveEnvironment, SearchPath}>>
    ELSE IF world.UV_FORCE_MANAGED_PYTHON # None
    THEN <<"Some", {ManagedToolchain}>>
    ELSE CASE system = "Allowed" -> <<"All">>
           [] system = "Required" ->
                <<"Some", {ProvidedPath, SearchPath, PyLauncher, ManagedToolchain}>>
           [] system = "Disallowed" -> <<"Some", {DiscoveredEnvironment, ActiveEnvironment}>>

\* SourceSelector::from_env
from_env(system) ==
    IF world.UV_FORCE_MANAGED_PYTHON # None
    THEN from_sources({ManagedToolchain})
    ELSE IF world.UV_TEST_PYTHON_PATH # None
    THEN from_sources({ActiveEnvironment, SearchPath})
    ELSE CASE system = "Allowed" -> All
           [] system = "Required" ->
                from_sources({ProvidedPath, SearchPath, PyLauncher, ManagedToolchain})
           [] system = "Disallowed" -> virtualenvs

----------------------------------------------------------------------------
(* VersionRequest                                                          *)

Default == <<"Default">>
Major(major) == <<"Major", major>>
MajorMinor(major, minor) == <<"MajorMinor", major, minor>>
MajorMinorPatch(major, minor, patch) == <<"MajorMinorPatch", major, minor, patch>>

\* variant of possible_names that leaves the major-only name out for MajorMinor and
\* MajorMinorPatch
possible_names_without_major(self) ==
    LET python == IF world.windows THEN "python.exe" ELSE "python"
        python3 == IF world.windows THEN "python3.exe" ELSE "python3"
        extension == IF world.windows THEN ".exe" ELSE ""
    IN CASE self[1] = "Default" -> <<Some(python3), Some(python), None, None>>
         [] self[1] = "Major" ->
              <<Some("python" \o ToString(self[2]) \o extension), Some(python), None, None>>
         [] self[1] = "MajorMinor" ->
              <<Some("python" \o ToString(self[2]) \o "." \o ToString(self[3]) \o extension),
                Some(python),
                None,
                None>>
         [] self[1] = "MajorMinorPatch" ->
              <<Some("python" \o ToString(self[2]) \o "." \o ToString(self[3]) \o "."
                        \o ToString(self[4]) \o extension),
                Some("python" \o ToString(self[2]) \o "." \o ToString(self[3]) \o extension),
                Some(python),
                None>>

\* VersionRequest::possible_names: [Option<Cow<str>>; 4]
possible_names(self) ==
    LET python == IF world.windows THEN "python.exe" ELSE "python"
        python3 == IF world.windows THEN "python3.exe" ELSE "python3"
        extension == IF world.windows THEN ".exe" ELSE ""
    IN CASE self[1] = "Default" -> <<Some(python3), Some(python), None, None>>
         [] self[1] = "Major" ->
              <<Some("python" \o ToString(self[2]) \o extension), Some(python), None, None>>
         [] self[1] = "MajorMinor" ->
              <<Some("python" \o ToString(self[2]) \o "." \o ToString(self[3]) \o extension),
                Some("python" \o ToString(self[2]) \o extension),
                Some(python),
                None>>
         [] self[1] = "MajorMinorPatch" ->
              <<Some("python" \o ToString(self[2]) \o "." \o ToString(self[3]) \o "."
                        \o ToString(self[4]) \o extension),
                Some("python" \o ToString(self[2]) \o "." \o ToString(self[3]) \o extension),
                Some("python" \o ToString(self[2]) \o extension),
                Some(python)>>

\* VersionRequest::matches_interpreter
matches_interpreter(self, interpreter) ==
    CASE self[1] = "Default" -> TRUE
      [] self[1] = "Major" -> interpreter.major = self[2]
      [] self[1] = "MajorMinor" ->
           <<interpreter.major, interpreter.minor>> = <<self[2], self[3]>>
      [] self[1] = "MajorMinorPatch" ->
           <<interpreter.major, interpreter.minor, interpreter.patch>>
               = <<self[2], self[3], self[4]>>

\* variant of matches_version that does not look at the patch
matches_version_ignoring_patch(self, version) ==
    CASE self[1] = "Default" -> TRUE
      [] self[1] = "Major" -> version.major = self[2]
      [] self[1] = "MajorMinor" -> <<version.major, version.minor>> = <<self[2], self[3]>>
      [] self[1] = "MajorMinorPatch" ->
           <<version.major, version.minor>> = <<self[2], self[3]>>

\* VersionRequest::matches_version; version.patch is an Option<u8>
matches_version(self, version) ==
    CASE self[1] = "Default" -> TRUE
      [] self[1] = "Major" -> version.major = self[2]
      [] self[1] = "MajorMinor" -> <<version.major, version.minor>> = <<self[2], self[3]>>
      [] self[1] = "MajorMinorPatch" ->
           <<version.major, version.minor, version.patch>> = <<self[2], self[3], Some(self[4])>>

\* VersionRequest::matches_major_minor
matches_major_minor(self, major, minor) ==
    CASE self[1] = "Default" -> TRUE
      [] self[1] = "Major" -> self[2] = major
      [] self[1] = "MajorMinor" -> <<self[2], self[3]>> = <<major, minor>>
      [] self[1] = "MajorMinorPatch" -> <<self[2], self[3]>> = <<major, minor>>

\* VersionRequest::has_patch
has_patch(self) == self[1] = "MajorMinorPatch"

\* VersionRequest::without_patch
without_patch(self) ==
    IF self[1] = "MajorMinorPatch" THEN MajorMinor(self[2], self[3]) ELSE self

----------------------------------------------------------------------------
(* InterpreterRequest, errors and results                                  *)

Version(version) == <<"Version", version>>
Directory(path) == <<"Directory", path>>
File(path) == <<"File", path>>
ExecutableName(name) == <<"ExecutableName", name>>
Implementation(implementation) == <<"Implementation", implementation>>
ImplementationVersion(implementation, version) ==
    <<"ImplementationVersion", implementation, version>>

\* enum Error: IO, Query(interpreter::Error), ManagedToolchain, VirtualEnv, PyLauncher,
\* SourceNotSelected.  `detail` is the interpreter::Error variant for Query (QueryScript
\* or another one) and the missing source for SourceNotSelected.
Error(kind, detail) == [kind |-> kind, detail |-> detail]

\* Result<InterpreterResult, Error>: the three shapes find_interpreter returns
OuterErr(err) == [tag |-> "Err", err |-> err]
NotFound(variant, args) == [tag |-> "NotFound", variant |-> variant, args |-> args]
Found(source, interpreter) == [tag |-> "Found", source |-> source, interpreter |-> interpreter]
\* no value yet
Pending == [tag |-> "Pending"]

----------------------------------------------------------------------------
(* External collaborators, answered by the environment `world`             *)

\* Interpreter::query(path, cache): an executable file answers with its metadata or
\* fails; exe.answer is what the file at exe.path does when the query script runs.
Query(exe) ==
    IF exe.answer.tag = "Ok"
    THEN [ok |-> TRUE,
          interpreter |-> [implementation_name |-> exe.answer.implementation_name,
                           major |-> exe.answer.major,
                           minor |-> exe.answer.minor,
                           patch |-> exe.answer.patch,
                           sys_executable |-> exe.path]]
    ELSE [ok |-> FALSE, err |-> Error("Query", exe.answer.tag)]

\* virtualenv_from_env(): Option<PathBuf>, the environment named by VIRTUAL_ENV
virtualenv_from_env == world.VIRTUAL_ENV

\* virtualenv_from_working_dir(): Result<Option<PathBuf>, virtualenv::Error>
virtualenv_from_working_dir == world.working_dir_venv

\* virtualenv_python_executable(venv): the interpreter beneath the environment root
virtualenv_python_executable(venv) == venv.python

\* toolchains_for_current_platform(): Result<impl Iterator<Item = Toolchain>, managed::Error>
toolchains_for_current_platform == world.toolchains

\* py_list_paths(): Result<Vec<PyListPath>, py_launcher::Error>
py_list_paths == world.py_list_paths

\* variant of which_in_global that yields a file whatever its permissions
which_in_global_any_file(name, dir) ==
    IF name \in DOMAIN dir.files
    THEN <<dir.files[name]>>
    ELSE <<>>

\* which::which_in_global(name, Some(dir)): the executable files called `name` in `dir`
which_in_global(name, dir) ==
    IF name \in DOMAIN dir.files /\ dir.files[name].executable
    THEN <<dir.files[name]>>
    ELSE <<>>

\* is_windows_store_shim(path): identically false off Windows
is_windows_store_shim(file) == world.windows /\ file.store_shim

\* which::which(name): the first executable file called `name` on PATH
which(name) ==
    LET dirs == IF world.PATH = None THEN <<>> ELSE world.PATH[1]
        hits == FlatMap(LAMBDA dir : IF dir.is_dir THEN which_in_global(name, dir) ELSE <<>>,
                        dirs)
    IN IF hits = <<>> THEN None ELSE Some(hits[1])

\* Path::try_exists(): io::Result<bool>, as the file system answers for `path`
try_exists(path) == path.try_exists

----------------------------------------------------------------------------
(* The candidate stream                                                    *)

\* an item of the stream: Ok((source, path)) or Err(err); `source` of an Err item is
\* the source whose producer failed
OkItem(source, path) == [ok |-> TRUE, source |-> source, path |-> path]
ErrItem(source, err) == [ok |-> FALSE, source |-> source, err |-> err]

\* variant of python_executables_from_search_path that goes through the names first
\* and through the directories for each name
python_executables_from_search_path_name_major(version) ==
    LET path ==
            IF world.UV_TEST_PYTHON_PATH # None THEN world.UV_TEST_PYTHON_PATH[1]
            ELSE IF world.PATH # None THEN world.PATH[1]
            ELSE <<>>
        names == Flatten(possible_names(IF version = None THEN Default ELSE version[1]))
        search_dirs == SelectSeq(path, LAMBDA dir : dir.is_dir)
        of_name(name) ==
            SelectSeq(FlatMap(LAMBDA dir : which_in_global(name, dir), search_dirs),
                      LAMBDA file : ~is_windows_store_shim(file))
    IN FlatMap(of_name, names)
       \o (IF world.windows
           THEN FlatMap(LAMBDA dir : which_in_global("python.bat", dir), search_dirs)
           ELSE <<>>)

\* python_executables_from_search_path
python_executables_from_search_path(version) ==
    LET path ==
            IF world.UV_TEST_PYTHON_PATH # None THEN world.UV_TEST_PYTHON_PATH[1]
            ELSE IF world.PATH # None THEN world.PATH[1]
            ELSE <<>>
        names == Flatten(possible_names(IF version = None THEN Default ELSE version[1]))
        search_dirs == SelectSeq(path, LAMBDA dir : dir.is_dir)
        in_dir(dir) ==
            SelectSeq(FlatMap(LAMBDA name : which_in_global(name, dir), names),
                      LAMBDA file : ~is_windows_store_shim(file))
            \o (IF world.windows THEN which_in_global("python.bat", dir) ELSE <<>>)
    IN FlatMap(in_dir, search_dirs)

\* a call of VersionRequest::possible_names
PossibleNames ==
    /\ op.name = "possible_names"
    /\ pc = "idle"
    /\ result' = possible_names(op.version)
    /\ pc' = "done"
    /\ UNCHANGED <<world, op, request, sources, stream, pos, invoked, queried, pass, final>>
    /\ UNCHANGED wvars

\* a call of python_executables_from_search_path(version), collected
ScanSearchPath ==
    /\ op.name = "python_executables_from_search_path"
    /\ pc = "idle"
    /\ result' = python_executables_from_search_path(op.version)
    /\ pc' = "done"
    /\ UNCHANGED <<world, op, request, sources, stream, pos, invoked, queried, pass, final>>
    /\ UNCHANGED wvars

\* python_executables, link (1): the active environment
active_environment(selector) ==
    IF contains(selector, ActiveEnvironment)
    THEN MapSeq(LAMBDA venv : OkItem(ActiveEnvironment, virtualenv_python_executable(venv)),
                virtualenv_from_env)
    ELSE <<>>

\* python_executables, link (2): a discovered environment; flatten_ok passes an Err on
discovered_environment(selector) ==
    IF contains(selector, DiscoveredEnvironment)
    THEN IF virtualenv_from_working_dir.ok
         THEN MapSeq(LAMBDA venv :
                         OkItem(DiscoveredEnvironment, virtualenv_python_executable(venv)),
                     virtualenv_from_working_dir.val)
         ELSE <<ErrItem(DiscoveredEnvironment, Error("VirtualEnv", ""))>>
    ELSE <<>>

\* python_executables, link (3): managed toolchains whose declared version satisfies
\* the request
managed_toolchains(version, selector) ==
    IF contains(selector, ManagedToolchain)
    THEN IF toolchains_for_current_platform.ok
         THEN MapSeq(LAMBDA toolchain : OkItem(ManagedToolchain, toolchain.executable),
                     SelectSeq(toolchains_for_current_platform.val,
                               LAMBDA toolchain :
                                   version = None
                                   \/ matches_version(version[1], toolchain.python_version)))
         ELSE <<ErrItem(ManagedToolchain, Error("ManagedToolchain", ""))>>
    ELSE <<>>

\* variant of search_path that yields the executables of the search path whatever the
\* selector holds
search_path_unselected(version, selector) ==
    MapSeq(LAMBDA path : OkItem(SearchPath, path),
           python_executables_from_search_path(version))

\* python_executables, link (4): the search path
search_path(version, selector) ==
    IF contains(selector, SearchPath)
    THEN MapSeq(LAMBDA path : OkItem(SearchPath, path),
                python_executables_from_search_path(version))
    ELSE <<>>

\* python_executables, link (5): the `py` launcher (Windows only)
py_launcher(version, selector) ==
    IF contains(selector, PyLauncher) /\ world.windows
    THEN IF py_list_paths.ok
         THEN MapSeq(LAMBDA entry : OkItem(PyLauncher, entry.executable_path),
                     SelectSeq(py_list_paths.val,
                               LAMBDA entry :
                                   version = None
                                   \/ has_patch(version[1])
                                   \/ matches_major_minor(version[1], entry.major,
                                                          entry.minor)))
         ELSE <<ErrItem(PyLauncher, Error("PyLauncher", ""))>>
    ELSE <<>>

\* variant of python_executables that chains the links in the declaration order of the
\* enum InterpreterSource (SearchPath and PyLauncher before ManagedToolchain)
python_executables_declaration_order(version, selector) ==
    active_environment(selector)
    \o discovered_environment(selector)
    \o search_path(version, selector)
    \o py_launcher(version, selector)
    \o managed_toolchains(version, selector)

\* python_executables: the items of the chained iterator, in the order it yields them
python_executables(version, selector) ==
    active_environment(selector)
    \o discovered_environment(selector)
    \o managed_toolchains(version, selector)
    \o search_path(version, selector)
    \o py_launcher(version, selector)

\* The producer functions that run while python_executables builds its chain.  Every
\* link is written `selected.then(|| producer()...)`: bool::then runs its closure at
\* once, and the argument of iter::once / the call python_executables_from_search_path
\* is evaluated inside it, so each selected producer has been called when
\* python_executables returns, before the consumer pulls the first item.
producers_called(selector) ==
    {source \in {ActiveEnvironment, DiscoveredEnvironment, ManagedToolchain, SearchPath} :
        contains(selector, source)}
    \cup (IF contains(selector, PyLauncher) /\ world.windows THEN {PyLauncher} ELSE {})

\* python_interpreters: the closure mapped over one item of python_executables
python_interpreters(item) ==
    IF item.ok
    THEN IF Query(item.path).ok
         THEN [ok |-> TRUE, source |-> item.source,
               interpreter |-> Query(item.path).interpreter]
         ELSE [ok |-> FALSE, err |-> Query(item.path).err]
    ELSE [ok |-> FALSE, err |-> item.err]

----------------------------------------------------------------------------
(* find_interpreter                                                        *)

StreamRequests == {"Version", "Implementation", "ImplementationVersion"}

\* the version handed to python_interpreters by each arm of find_interpreter
prefilter(req) ==
    CASE req[1] = "Version" -> Some(req[2])
      [] req[1] = "ImplementationVersion" -> Some(req[3])
      [] req[1] = "Implementation" -> None

\* variant of find_predicate whose Version arm stops at any interpreter
find_predicate_any_interpreter(req, res) ==
    CASE req[1] = "Implementation" ->
           (~res.ok /\ ~(res.err.kind = "Query" /\ res.err.detail = "QueryScript"))
           \/ (res.ok /\ res.interpreter.implementation_name = req[2])
      [] req[1] = "ImplementationVersion" ->
           ~res.ok
           \/ (res.ok /\ matches_interpreter(req[3], res.interpreter)
                      /\ res.interpreter.implementation_name = req[2])
      [] req[1] = "Version" ->
           ~res.ok \/ res.ok

\* variant of find_predicate whose Implementation arm stops at any error
find_predicate_strict_implementation(req, res) ==
    CASE req[1] = "Implementation" ->
           ~res.ok
           \/ (res.ok /\ res.interpreter.implementation_name = req[2])
      [] req[1] = "ImplementationVersion" ->
           ~res.ok
           \/ (res.ok /\ matches_interpreter(req[3], res.interpreter)
                      /\ res.interpreter.implementation_name = req[2])
      [] req[1] = "Version" ->
           ~res.ok \/ (res.ok /\ matches_interpreter(req[2], res.interpreter))

\* variant of find_predicate whose Version arm skips QueryScript failures
find_predicate_lenient_version(req, res) ==
    CASE req[1] = "Implementation" ->
           (~res.ok /\ ~(res.err.kind = "Query" /\ res.err.detail = "QueryScript"))
           \/ (res.ok /\ res.interpreter.implementation_name = req[2])
      [] req[1] = "ImplementationVersion" ->
           ~res.ok
           \/ (res.ok /\ matches_interpreter(req[3], res.interpreter)
                      /\ res.interpreter.implementation_name = req[2])
      [] req[1] = "Version" ->
           (~res.ok /\ ~(res.err.kind = "Query" /\ res.err.detail = "QueryScript"))
           \/ (res.ok /\ matches_interpreter(req[2], res.interpreter))

\* the closures passed to Iterator::find by the three enumerating arms
find_predicate(req, res) ==
    CASE req[1] = "Implementation" ->
           (~res.ok /\ ~(res.err.kind = "Query" /\ res.err.detail = "QueryScript"))
           \/ (res.ok /\ res.interpreter.implementation_name = req[2])
      [] req[1] = "ImplementationVersion" ->
           ~res.ok
           \/ (res.ok /\ matches_interpreter(req[3], res.interpreter)
                      /\ res.interpreter.implementation_name = req[2])
      [] req[1] = "Version" ->
           ~res.ok \/ (res.ok /\ matches_interpreter(req[2], res.interpreter))

\* variant of not_found that reports NoPythonInstallation whatever was requested
not_found_no_installation(req, selector) ==
    NotFound("NoPythonInstallation", <<selector, None>>)

\* the `else` branches taken when find returns None
not_found(req, selector) ==
    CASE req[1] = "Implementation" ->
           NotFound("NoMatchingImplementation", <<selector, req[2]>>)
      [] req[1] = "ImplementationVersion" ->
           NotFound("NoMatchingImplementationVersion", <<selector, req[2], req[3]>>)
      [] req[1] = "Version" ->
           IF req[2] = Default
           THEN NotFound("NoPythonInstallation", <<selector, Some(req[2])>>)
           ELSE NotFound("NoMatchingVersion", <<selector, req[2]>>)

\* variant of find_file that looks at the file system before it looks at the selector
find_file_exists_first(req, selector) ==
    LET path == req[2] IN
    IF ~try_exists(path).ok THEN <<OuterErr(Error("IO", "")), <<>>>>
    ELSE IF ~try_exists(path).val THEN <<NotFound("FileNotFound", <<path.path>>), <<>>>>
    ELSE IF ~contains(selector, ProvidedPath)
    THEN <<OuterErr(Error("SourceNotSelected", ProvidedPath)), <<>>>>
    ELSE IF Query(path).ok
         THEN <<Found(ProvidedPath, Query(path).interpreter), <<path>>>>
         ELSE <<OuterErr(Query(path).err), <<path>>>>

\* InterpreterRequest::File arm: (result, executables queried)
find_file(req, selector) ==
    LET path == req[2] IN
    IF ~contains(selector, ProvidedPath)
    THEN <<OuterErr(Error("SourceNotSelected", ProvidedPath)), <<>>>>
    ELSE IF ~try_exists(path).ok THEN <<OuterErr(Error("IO", "")), <<>>>>
    ELSE IF ~try_exists(path).val THEN <<NotFound("FileNotFound", <<path.path>>), <<>>>>
    ELSE IF Query(path).ok
         THEN <<Found(ProvidedPath, Query(path).interpreter), <<path>>>>
         ELSE <<OuterErr(Query(path).err), <<path>>>>

\* InterpreterRequest::Directory arm: (result, executables queried)
find_directory(req, selector) ==
    LET path == req[2]
        executable == virtualenv_python_executable(path)
    IN
    IF ~contains(selector, ProvidedPath)
    THEN <<OuterErr(Error("SourceNotSelected", ProvidedPath)), <<>>>>
    ELSE IF ~try_exists(path).ok THEN <<OuterErr(Error("IO", "")), <<>>>>
    ELSE IF ~try_exists(path).val THEN <<NotFound("FileNotFound", <<path.path>>), <<>>>>
    ELSE IF ~try_exists(executable).ok THEN <<OuterErr(Error("IO", "")), <<>>>>
    ELSE IF ~try_exists(executable).val
         THEN <<NotFound("ExecutableNotFoundInDirectory", <<path.path, executable.path>>),
                <<>>>>
    ELSE IF Query(executable).ok
         THEN <<Found(ProvidedPath, Query(executable).interpreter), <<executable>>>>
         ELSE <<OuterErr(Query(executable).err), <<executable>>>>

\* InterpreterRequest::ExecutableName arm: (result, executables queried)
find_executable_name(req, selector) ==
    LET name == req[2] IN
    IF ~contains(selector, SearchPath)
    THEN <<OuterErr(Error("SourceNotSelected", SearchPath)), <<>>>>
    ELSE IF which(name) = None
         THEN <<NotFound("ExecutableNotFoundInSearchPath", <<name>>), <<>>>>
    ELSE IF Query(which(name)[1]).ok
         THEN <<Found(SearchPath, Query(which(name)[1]).interpreter), <<which(name)[1]>>>>
         ELSE <<OuterErr(Query(which(name)[1]).err), <<which(name)[1]>>>>

\* find_interpreter, the File / Directory / ExecutableName arms: checks, then one query
FindProvided ==
    /\ pc = "call"
    /\ request[1] \notin StreamRequests
    /\ LET out == CASE request[1] = "File" -> find_file(request, sources)
                    [] request[1] = "Directory" -> find_directory(request, sources)
                    [] request[1] = "ExecutableName" ->
                         find_executable_name(request, sources)
       IN /\ result' = out[1]
          /\ queried' = out[2]
    /\ pc' = "done"
    /\ UNCHANGED <<world, op, request, sources, stream, pos, invoked, pass, final>>
    /\ UNCHANGED wvars

\* find_interpreter, the enumerating arms: python_interpreters(version, sources, cache)
\* builds the iterator; nothing has been pulled or queried yet
Construct ==
    /\ pc = "call"
    /\ request[1] \in StreamRequests
    /\ stream' = python_executables(prefilter(request), sources)
    /\ invoked' = producers_called(sources)
    /\ pos' = 0
    /\ pc' = "iter"
    /\ UNCHANGED <<world, op, request, sources, queried, result, pass, final>>
    /\ UNCHANGED wvars

\* Iterator::find pulls the next item: the mapped closure queries it, the predicate
\* decides whether find stops; `.transpose()?` turns a stopping Err into the return value
Pull ==
    /\ pc = "iter"
    /\ pos < Len(stream)
    /\ LET item == stream[pos + 1]
           res == python_interpreters(item)
       IN /\ queried' = IF item.ok THEN Append(queried, item.path) ELSE queried
          /\ IF find_predicate(request, res)
             THEN /\ result' = IF res.ok THEN Found(res.source, res.interpreter)
                                ELSE OuterErr(res.err)
                  /\ pc' = "done"
             ELSE /\ UNCHANGED result
                  /\ pc' = "iter"
    /\ pos' = pos + 1
    /\ UNCHANGED <<world, op, request, sources, stream, invoked, pass, final>>
    /\ UNCHANGED wvars

\* the iterator is exhausted: find returns None and the `else` branch returns NotFound
Exhausted ==
    /\ pc = "iter"
    /\ pos = Len(stream)
    /\ result' = not_found(request, sources)
    /\ pc' = "done"
    /\ UNCHANGED <<world, op, request, sources, stream, pos, invoked, queried, pass, final>>
    /\ UNCHANGED wvars

----------------------------------------------------------------------------
(* find_default_interpreter and find_best_interpreter                      *)

\* find_default_interpreter: fixes the request and the sources, then calls find_interpreter
DefaultCall ==
    /\ op.name = "find_default_interpreter"
    /\ pc = "idle"
    /\ final = Pending
    /\ request' = Version(Default)
    /\ sources' = from_sources({SearchPath, PyLauncher})
    /\ pc' = "call"
    /\ UNCHANGED <<world, op, stream, pos, invoked, queried, result, pass, final>>
    /\ UNCHANGED wvars

\* find_default_interpreter: `find_interpreter(..)?` then `Ok(result)`
DefaultReturn ==
    /\ op.name = "find_default_interpreter"
    /\ pc = "done"
    /\ final = Pending
    /\ final' = result
    /\ UNCHANGED <<world, op, pc, request, sources, stream, pos, invoked, queried, result, pass>>
    /\ UNCHANGED wvars

\* variant of relaxed_request that never relaxes
relaxed_request_never(req) == None

\* find_best_interpreter, pass 2: the request retried without its patch, if any
relaxed_request(req) ==
    CASE req[1] = "Version" ->
           IF has_patch(req[2]) THEN Some(Version(without_patch(req[2]))) ELSE None
      [] req[1] = "ImplementationVersion" ->
           Some(ImplementationVersion(req[2], without_patch(req[3])))
      [] OTHER -> None

\* find_best_interpreter, the closure of the final map_err
rewrite_not_found(res, selector) ==
    IF res.tag = "NotFound" /\ res.variant = "NoMatchingVersion"
    THEN NotFound("NoPythonInstallation", <<selector, None>>)
    ELSE res

\* find_best_interpreter: sources from the environment, then the exact request
BestCall ==
    /\ op.name = "find_best_interpreter"
    /\ pc = "idle"
    /\ pass = 0
    /\ final = Pending
    /\ sources' = from_env(op.system)
    /\ request' = op.request
    /\ pass' = 1
    /\ pc' = "call"
    /\ queried' = <<>>
    /\ UNCHANGED <<world, op, stream, pos, invoked, result, final>>
    /\ UNCHANGED wvars

\* find_best_interpreter: `find_interpreter(..)?` returned Err, or passes 1 and 2
\* found an interpreter, or pass 3 returned anything
BestReturn ==
    /\ op.name = "find_best_interpreter"
    /\ pc = "done"
    /\ pass \in 1..3
    /\ final = Pending
    /\ result.tag \in {"Err", "Found"} \/ pass = 3
    /\ final' = IF pass = 3 THEN rewrite_not_found(result, sources) ELSE result
    /\ UNCHANGED <<world, op, pc, request, sources, stream, pos, invoked, queried, result, pass>>
    /\ UNCHANGED wvars

\* find_best_interpreter: pass 1 found nothing and the request can be relaxed
BestRelax ==
    /\ op.name = "find_best_interpreter"
    /\ pc = "done"
    /\ pass = 1
    /\ result.tag = "NotFound"
    /\ relaxed_request(op.request) # None
    /\ request' = relaxed_request(op.request)[1]
    /\ pass' = 2
    /\ pc' = "call"
    /\ stream' = <<>>
    /\ pos' = 0
    /\ invoked' = {}
    /\ queried' = <<>>
    /\ UNCHANGED <<world, op, sources, result, final>>
    /\ UNCHANGED wvars

\* find_best_interpreter: nothing found so far, fall back to Version(Default)
BestFallback ==
    /\ op.name = "find_best_interpreter"
    /\ pc = "done"
    /\ \/ pass = 1 /\ relaxed_request(op.request) = None
       \/ pass = 2
    /\ result.tag = "NotFound"
    /\ request' = Version(Default)
    /\ pass' = 3
    /\ pc' = "call"
    /\ stream' = <<>>
    /\ pos' = 0
    /\ invoked' = {}
    /\ queried' = <<>>
    /\ UNCHANGED <<world, op, sources, result, final>>
    /\ UNCHANGED wvars

----------------------------------------------------------------------------
(* Workspace discovery: the file system and the manifests                  *)

\* A path is the sequence of its components; `fs` maps every existing path to a node:
\* [kind |-> "dir", readable |-> can it be listed] or [kind |-> "file", content |-> c].

\* Path::join
join(path, rel) == path \o rel

\* Path::ancestors: the path itself, then its parent, ... up to the root
ancestors(path) == [i \in 1..(Len(path) + 1) |-> SubSeq(path, 1, Len(path) + 1 - i)]

\* Path::exists
exists(path) == path \in DOMAIN fs

\* DiscoverError values
DiscoverError(kind, detail) == [kind |-> kind, detail |-> detail]

\* fs_err::read_to_string: fails for anything but an existing file
read_to_string(path) ==
    IF path \in DOMAIN fs /\ fs[path].kind = "file"
    THEN [ok |-> TRUE, val |-> fs[path].content]
    ELSE [ok |-> FALSE, err |-> DiscoverError("Io", path)]

\* toml::from_str::<PyProjectToml>: the parsed manifest, or a Toml error when the
\* contents are no TOML or do not fit the schema
from_str(contents) ==
    IF contents.toml
    THEN [ok |-> TRUE,
          val |-> [project |-> contents.project,
                   workspace |-> contents.workspace,
                   sources |-> contents.sources]]
    ELSE [ok |-> FALSE, err |-> DiscoverError("Toml", "")]

\* the names of path components, in the (alphabetical) order glob yields them
NameOrder == <<"packages", "pkg1", "pkg2", "pkg3", "pyproject.toml", "ws">>

NameRank(name) == CHOOSE i \in 1..Len(NameOrder) : NameOrder[i] = name

\* p comes before q in the order of the paths glob yields (both match one pattern, so
\* they have the same length)
PathLess(p, q) ==
    \E k \in 1..Len(p) :
        /\ \A j \in 1..(k - 1) : p[j] = q[j]
        /\ NameRank(p[k]) < NameRank(q[k])

RECURSIVE SortPaths(_)
SortPaths(paths) ==
    IF paths = {} THEN <<>>
    ELSE LET first == CHOOSE p \in paths : \A q \in paths \ {p} : PathLess(p, q)
         IN <<first>> \o SortPaths(paths \ {first})

\* a pattern component the glob crate rejects (wildcards are `*` or `**` only)
InvalidWildcard == "***"

\* glob::glob(pattern): Err(PatternError) for an invalid pattern, else the sequence of
\* items the iterator yields: Ok(path) for every existing path that matches, in
\* alphabetical order, and Err(GlobError) for a directory that cannot be listed
glob(pattern) ==
    IF \E i \in 1..Len(pattern) : pattern[i] = InvalidWildcard
    THEN [ok |-> FALSE]
    ELSE LET Fits(p, n) == \A i \in 1..n : pattern[i] = "*" \/ pattern[i] = p[i]
             Listed(p) == \A k \in 0..(Len(p) - 1) :
                              pattern[k + 1] = "*" => fs[SubSeq(p, 1, k)].readable
             unlistable == {d \in DOMAIN fs :
                               /\ Len(d) < Len(pattern)
                               /\ Fits(d, Len(d))
                               /\ pattern[Len(d) + 1] = "*"
                               /\ fs[d].kind = "dir"
                               /\ ~fs[d].readable
                               /\ Listed(d)}
             matched == {p \in DOMAIN fs :
                            Len(p) = Len(pattern) /\ Fits(p, Len(p)) /\ Listed(p)}
         IN [ok |-> TRUE,
             items |-> MapSeq(LAMBDA d : [ok |-> FALSE, path |-> d], SortPaths(unlistable))
                       \o MapSeq(LAMBDA q : [ok |-> TRUE, path |-> q], SortPaths(matched))]

----------------------------------------------------------------------------
(* ProjectWorkspace                                                        *)

PyprojectToml == <<"pyproject.toml">>

\* Result values of the workspace functions
WOk(val) == [ok |-> TRUE, val |-> val]
WErr(err) == [ok |-> FALSE, err |-> err]

\* ProjectWorkspace::read_project
read_project(path) ==
    LET pyproject_path == join(path, PyprojectToml)
        contents == read_to_string(pyproject_path)
    IN IF ~contents.ok THEN WErr(contents.err)
       ELSE LET pyproject_toml == from_str(contents.val) IN
            IF ~pyproject_toml.ok THEN WErr(pyproject_toml.err)
            ELSE IF pyproject_toml.val.project = None
                 THEN WErr(DiscoverError("MissingProject", pyproject_path))
                 ELSE WOk(Some(<<path, pyproject_toml.val, pyproject_toml.val.project[1].name>>))

\* what the loops over globs meet, in order: a Pattern error ends the sequence of its
\* glob (the `?` returns), a Glob error or a path is one item of the glob's iterator
glob_events(root, globs) ==
    FlatMap(LAMBDA g :
                LET absolute_glob == join(root, g) IN
                IF ~glob(absolute_glob).ok
                THEN <<[tag |-> "Pattern", glob |-> absolute_glob]>>
                ELSE MapSeq(LAMBDA item :
                                IF item.ok THEN [tag |-> "Path", path |-> item.path]
                                ELSE [tag |-> "Glob", glob |-> absolute_glob],
                            glob(absolute_glob).items),
            globs)

\* find_workspace, the loop over the exclude globs of the workspace found at `ancestor`:
\* Ok(TRUE) if `path` is excluded, Ok(FALSE) if not, Err at the first failing glob
excluded(ancestor, workspace, path) ==
    LET events == glob_events(ancestor,
                              IF workspace.exclude = None THEN <<>> ELSE workspace.exclude[1])
        decisive == {i \in 1..Len(events) :
                        \/ events[i].tag \in {"Pattern", "Glob"}
                        \/ events[i].tag = "Path" /\ events[i].path = path}
    IN IF decisive = {} THEN WOk(FALSE)
       ELSE LET e == events[CHOOSE i \in decisive : \A j \in decisive : i <= j]
            IN IF e.tag = "Path" THEN WOk(TRUE)
               ELSE WErr(DiscoverError(e.tag, e.glob))

\* find_workspace, the loop `for ancestor in path.ancestors()` from its i-th iteration
RECURSIVE find_workspace_from(_, _)
find_workspace_from(path, i) ==
    IF i > Len(ancestors(path)) THEN WOk(None)
    ELSE LET ancestor == ancestors(path)[i]
             pyproject_path == join(ancestor, PyprojectToml)
         IN IF ~exists(pyproject_path) THEN find_workspace_from(path, i + 1)
            ELSE LET contents == read_to_string(pyproject_path) IN
                 IF ~contents.ok THEN WErr(contents.err)
                 ELSE LET pyproject_toml == from_str(contents.val) IN
                      IF ~pyproject_toml.ok THEN WErr(pyproject_toml.err)
                      ELSE IF pyproject_toml.val.workspace # None
                      THEN LET workspace == pyproject_toml.val.workspace[1]
                               out == excluded(ancestor, workspace, path)
                           IN IF ~out.ok THEN out
                              ELSE IF out.val THEN WOk(None)
                              ELSE WOk(Some(<<ancestor, workspace, pyproject_toml.val>>))
                      ELSE IF pyproject_toml.val.project # None THEN WOk(None)
                      ELSE WErr(DiscoverError("MissingProject", pyproject_path))

\* variant of find_workspace that starts at the parent of `path` and ignores the
\* exclude globs of the workspace it finds
find_workspace_ignoring_exclude(path) ==
    LET above == SelectSeq(Tail(ancestors(path)),
                           LAMBDA dir : exists(join(dir, PyprojectToml)))
    IN IF above = <<>> THEN WOk(None)
       ELSE LET contents == read_to_string(join(above[1], PyprojectToml)) IN
            IF ~contents.ok THEN WErr(contents.err)
            ELSE LET pyproject_toml == from_str(contents.val) IN
                 IF ~pyproject_toml.ok THEN WErr(pyproject_toml.err)
                 ELSE IF pyproject_toml.val.workspace # None
                 THEN WOk(Some(<<above[1], pyproject_toml.val.workspace[1],
                                 pyproject_toml.val>>))
                 ELSE IF pyproject_toml.val.project # None THEN WOk(None)
                 ELSE WErr(DiscoverError("MissingProject", join(above[1], PyprojectToml)))

\* ProjectWorkspace::find_workspace
find_workspace(path) == find_workspace_from(path, 1)

\* WorkspaceMember
WorkspaceMember(root, pyproject_toml) == [root |-> root, pyproject_toml |-> pyproject_toml]

\* variant of insert that drops the entries the map already holds
insert_alone(map, key, value) == [k \in {key} |-> value]

\* BTreeMap::insert: a new key is added, an existing key gets the new value
insert(map, key, value) ==
    [k \in DOMAIN map \cup {key} |-> IF k = key THEN value ELSE map[k]]

\* from_project, the loops over the members globs from the i-th item they meet:
\* every matched path contributes a member, the first failure returns
RECURSIVE insert_members(_, _, _, _)
insert_members(workspace_root, events, i, workspace_members) ==
    IF i > Len(events) THEN WOk(workspace_members)
    ELSE LET e == events[i] IN
         IF e.tag # "Path" THEN WErr(DiscoverError(e.tag, e.glob))
         ELSE LET member_root == e.path
                  contents == read_to_string(join(member_root, PyprojectToml))
              IN IF ~contents.ok THEN WErr(contents.err)
                 ELSE IF ~from_str(contents.val).ok THEN WErr(from_str(contents.val).err)
                 ELSE IF from_str(contents.val).val.project = None
                 THEN WErr(DiscoverError("MissingProject", member_root))
                 ELSE LET project == from_str(contents.val).val.project[1]
                          again == read_to_string(join(workspace_root, PyprojectToml))
                      IN IF ~again.ok THEN WErr(again.err)
                         ELSE IF ~from_str(again.val).ok THEN WErr(from_str(again.val).err)
                         ELSE insert_members(
                                  workspace_root, events, i + 1,
                                  insert(workspace_members, project.name,
                                         WorkspaceMember(member_root, from_str(again.val).val)))

\* from_project, from the first insertion into workspace_members to the return
collect_members(project_path, project, project_name, workspace) ==
    LET own == insert(<<>>, project_name, WorkspaceMember(project_path, project)) IN
    IF workspace = None
    THEN WOk([project_root |-> project_path,
              project_name |-> project_name,
              workspace_root |-> project_path,
              workspace_packages |-> own,
              workspace_sources |-> <<>>])
    ELSE LET workspace_root == workspace[1][1]
             workspace_definition == workspace[1][2]
             project_in_workspace_root == workspace[1][3]
             reread == read_to_string(join(workspace_root, PyprojectToml))
             with_root ==
                 IF workspace_root # project_path
                 THEN IF ~reread.ok THEN WErr(reread.err)
                      ELSE IF ~from_str(reread.val).ok THEN WErr(from_str(reread.val).err)
                      ELSE IF project_in_workspace_root.project # None
                      THEN WOk(insert(own, project_in_workspace_root.project[1].name,
                                      WorkspaceMember(workspace_root, from_str(reread.val).val)))
                      ELSE WOk(own)
                 ELSE WOk(own)
             events == glob_events(workspace_root,
                                   IF workspace_definition.members = None THEN <<>>
                                   ELSE workspace_definition.members[1])
         IN IF ~with_root.ok THEN with_root
            ELSE LET members == insert_members(workspace_root, events, 1, with_root.val) IN
                 IF ~members.ok THEN members
                 ELSE WOk([project_root |-> project_path,
                           project_name |-> project_name,
                           workspace_root |-> workspace_root,
                           workspace_packages |-> members.val,
                           workspace_sources |->
                               IF project_in_workspace_root.sources = None THEN <<>>
                               ELSE project_in_workspace_root.sources[1]])

\* ProjectWorkspace::discover, up to the call of from_project
Discover ==
    /\ op.name = "discover"
    /\ wpc = "idle"
    /\ LET out == read_project(op.path) IN
       IF ~out.ok
       THEN /\ wresult' = out
            /\ wpc' = "done"
            /\ UNCHANGED wproject
       ELSE IF out.val = None
       THEN /\ wresult' = WErr(DiscoverError("MissingPyprojectToml", ""))
            /\ wpc' = "done"
            /\ UNCHANGED wproject
       ELSE /\ wproject' = out.val[1]
            /\ wpc' = "from_project"
            /\ UNCHANGED wresult
    /\ UNCHANGED <<fs, wworkspace>>
    /\ UNCHANGED ivars

\* ProjectWorkspace::from_pyproject_toml, up to the call of from_project
FromPyprojectToml ==
    /\ op.name = "from_pyproject_toml"
    /\ wpc = "idle"
    /\ LET pyproject_path == op.path
           contents == read_to_string(pyproject_path)
       IN IF ~contents.ok
          THEN /\ wresult' = WErr(contents.err)
               /\ wpc' = "done"
               /\ UNCHANGED wproject
          ELSE IF ~from_str(contents.val).ok
          THEN /\ wresult' = WOk(None)
               /\ wpc' = "done"
               /\ UNCHANGED wproject
          ELSE IF from_str(contents.val).val.project = None
          THEN /\ wresult' = WErr(DiscoverError("MissingProject", pyproject_path))
               /\ wpc' = "done"
               /\ UNCHANGED wproject
          ELSE /\ wproject' = <<SubSeq(pyproject_path, 1, Len(pyproject_path) - 1),
                                from_str(contents.val).val,
                                from_str(contents.val).val.project[1].name>>
               /\ wpc' = "from_project"
               /\ UNCHANGED wresult
    /\ UNCHANGED <<fs, wworkspace>>
    /\ UNCHANGED ivars

\* from_project: the workspace of the project's own manifest, else find_workspace(..)?
ResolveWorkspace ==
    /\ wpc = "from_project"
    /\ LET project_path == wproject[1]
           project == wproject[2]
       IN IF project.workspace # None
          THEN /\ wworkspace' = Some(<<project_path, project.workspace[1], project>>)
               /\ wpc' = "members"
               /\ UNCHANGED wresult
          ELSE IF ~find_workspace(project_path).ok
          THEN /\ wresult' = find_workspace(project_path)
               /\ wpc' = "done"
               /\ UNCHANGED wworkspace
          ELSE /\ wworkspace' = find_workspace(project_path).val
               /\ wpc' = "members"
               /\ UNCHANGED wresult
    /\ UNCHANGED <<fs, wproject>>
    /\ UNCHANGED ivars

\* from_project: the members are collected and the ProjectWorkspace is returned;
\* from_pyproject_toml wraps it in Some
CollectMembers ==
    /\ wpc = "members"
    /\ LET out == collect_members(wproject[1], wproject[2], wproject[3], wworkspace) IN
       wresult' = IF out.ok /\ op.name = "from_pyproject_toml" THEN WOk(Some(out.val))
                  ELSE out
    /\ wpc' = "done"
    /\ UNCHANGED <<fs, wproject, wworkspace>>
    /\ UNCHANGED ivars

----------------------------------------------------------------------------
(* Parsing requests.  The strings these functions take apart are written   *)
(* as sequences of one-character strings.                                  *)

\* u8::MAX: the largest component `str::parse::<u8>` accepts
U8_MAX == 255

DigitChars == <<"0", "1", "2", "3", "4", "5", "6", "7", "8", "9">>

IsDigit(c) == \E i \in 1..Len(DigitChars) : DigitChars[i] = c

\* char::to_digit(10)
to_digit(c) == (CHOOSE i \in 1..Len(DigitChars) : DigitChars[i] = c) - 1

\* the digit loop of `str::parse::<u8>`: checked_mul(10) and checked_add(digit) on u8
RECURSIVE parse_digits(_, _)
parse_digits(digits, acc) ==
    IF digits = <<>> THEN [ok |-> TRUE, value |-> acc]
    ELSE IF ~IsDigit(Head(digits)) THEN [ok |-> FALSE, error |-> "InvalidDigit"]
    ELSE IF acc * 10 + to_digit(Head(digits)) > U8_MAX
    THEN [ok |-> FALSE, error |-> "PosOverflow"]
    ELSE parse_digits(Tail(digits), acc * 10 + to_digit(Head(digits)))

\* `str::parse::<u8>`: an optional `+`, then one or more decimal digits
parse_u8(src) ==
    IF src = <<>> THEN [ok |-> FALSE, error |-> "Empty"]
    ELSE IF src = <<"+">> \/ src = <<"-">> THEN [ok |-> FALSE, error |-> "InvalidDigit"]
    ELSE parse_digits(IF Head(src) = "+" THEN Tail(src) ELSE src, 0)

\* the index of the first occurrence of pat in s, or 0
find_char(s, pat) ==
    IF \E i \in 1..Len(s) : s[i] = pat
    THEN CHOOSE i \in 1..Len(s) : s[i] = pat /\ \A j \in 1..(i - 1) : s[j] # pat
    ELSE 0

\* str::splitn(n, pat): at most n pieces, the last one holding the rest of the string
RECURSIVE splitn(_, _, _)
splitn(n, pat, s) ==
    IF n = 1 \/ find_char(s, pat) = 0 THEN <<s>>
    ELSE <<SubSeq(s, 1, find_char(s, pat) - 1)>>
         \o splitn(n - 1, pat, SubSeq(s, find_char(s, pat) + 1, Len(s)))

\* <VersionRequest as FromStr>::from_str; the error is that of the first component
\* that does not parse
VersionRequest_from_str(s) ==
    LET parts == splitn(3, ".", s)
        versions == [i \in 1..Len(parts) |-> parse_u8(parts[i])]
        failed == {i \in 1..Len(parts) : ~versions[i].ok}
    IN  IF failed # {}
        THEN [ok |-> FALSE,
              error |-> versions[CHOOSE i \in failed : \A j \in failed : i <= j].error]
        ELSE [ok |-> TRUE,
              value |-> CASE Len(parts) = 1 -> Major(versions[1].value)
                          [] Len(parts) = 2 -> MajorMinor(versions[1].value, versions[2].value)
                          [] Len(parts) = 3 ->
                               MajorMinorPatch(versions[1].value, versions[2].value,
                                               versions[3].value)]

\* `{n}` in write!() for a u8: its decimal digits, no sign, no leading zeros
RECURSIVE u8_to_string(_)
u8_to_string(n) ==
    IF n < 10 THEN <<DigitChars[n + 1]>>
    ELSE u8_to_string(n \div 10) \o <<DigitChars[(n % 10) + 1]>>

\* <VersionRequest as Display>::fmt
VersionRequest_to_string(self) ==
    CASE self = Default -> <<"d", "e", "f", "a", "u", "l", "t">>
      [] self[1] = "Major" -> u8_to_string(self[2])
      [] self[1] = "MajorMinor" -> u8_to_string(self[2]) \o <<".">> \o u8_to_string(self[3])
      [] self[1] = "MajorMinorPatch" ->
           u8_to_string(self[2]) \o <<".">> \o u8_to_string(self[3]) \o <<".">>
           \o u8_to_string(self[4])

\* str::strip_prefix
strip_prefix(s, prefix) ==
    IF Len(s) >= Len(prefix) /\ SubSeq(s, 1, Len(prefix)) = prefix
    THEN Some(SubSeq(s, Len(prefix) + 1, Len(s)))
    ELSE None

\* str::split_once
split_once(s, delimiter) ==
    IF find_char(s, delimiter) = 0 THEN None
    ELSE Some(<<SubSeq(s, 1, find_char(s, delimiter) - 1),
                SubSeq(s, find_char(s, delimiter) + 1, Len(s))>>)

UpperChars ==
    <<"A", "B", "C", "D", "E", "F", "G", "H", "I", "J", "K", "L", "M",
      "N", "O", "P", "Q", "R", "S", "T", "U", "V", "W", "X", "Y", "Z">>
LowerChars ==
    <<"a", "b", "c", "d", "e", "f", "g", "h", "i", "j", "k", "l", "m",
      "n", "o", "p", "q", "r", "s", "t", "u", "v", "w", "x", "y", "z">>

\* str::to_ascii_lowercase: A..Z become a..z, every other character is kept
to_ascii_lowercase(s) ==
    [i \in 1..Len(s) |->
        IF \E k \in 1..Len(UpperChars) : UpperChars[k] = s[i]
        THEN LowerChars[CHOOSE k \in 1..Len(UpperChars) : UpperChars[k] = s[i]]
        ELSE s[i]]

\* ImplementationName::iter: the known implementations, CPython and PyPy
ImplementationNames == <<"cpython", "pypy">>

\* ImplementationName::as_str
as_str(implementation) ==
    CASE implementation = "cpython" -> <<"c", "p", "y", "t", "h", "o", "n">>
      [] implementation = "pypy" -> <<"p", "y", "p", "y">>

\* <ImplementationName as FromStr>::from_str: a known name, in any letter case
ImplementationName_from_str(s) ==
    IF \E i \in 1..Len(ImplementationNames) :
            as_str(ImplementationNames[i]) = to_ascii_lowercase(s)
    THEN [ok |-> TRUE,
          value |-> ImplementationNames[CHOOSE i \in 1..Len(ImplementationNames) :
                        as_str(ImplementationNames[i]) = to_ascii_lowercase(s)]]
    ELSE [ok |-> FALSE, error |-> "UnknownImplementation"]

\* std::path::MAIN_SEPARATOR
MAIN_SEPARATOR == IF world.windows THEN "\\" ELSE "/"

\* Path::is_dir, answered by the file system
is_dir(value) == value \in world.dirs

\* the `for implementation in ImplementationName::iter()` loop of parse, from the i-th
\* implementation on: the request it returns, or None when it falls through
RECURSIVE parse_implementation(_, _)
parse_implementation(value, i) ==
    IF i > Len(ImplementationNames) THEN None
    ELSE LET implementation == ImplementationNames[i]
             remainder == strip_prefix(to_ascii_lowercase(value), as_str(implementation))
         IN  IF remainder # None /\ remainder[1] = <<>>
             THEN Some(Implementation(implementation))
             ELSE IF remainder # None /\ VersionRequest_from_str(remainder[1]).ok
             THEN Some(ImplementationVersion(implementation,
                                             VersionRequest_from_str(remainder[1]).value))
             ELSE parse_implementation(value, i + 1)

\* variant of parse that looks for an existing directory before anything else
parse_directory_first(value) ==
    IF is_dir(value) THEN Directory(value)
    ELSE IF VersionRequest_from_str(value).ok
    THEN Version(VersionRequest_from_str(value).value)
    ELSE IF /\ strip_prefix(value, <<"p", "y", "t", "h", "o", "n">>) # None
            /\ VersionRequest_from_str(
                   strip_prefix(value, <<"p", "y", "t", "h", "o", "n">>)[1]).ok
    THEN Version(VersionRequest_from_str(
                     strip_prefix(value, <<"p", "y", "t", "h", "o", "n">>)[1]).value)
    ELSE IF /\ split_once(value, "@") # None
            /\ ImplementationName_from_str(split_once(value, "@")[1][1]).ok
            /\ VersionRequest_from_str(split_once(value, "@")[1][2]).ok
    THEN ImplementationVersion(ImplementationName_from_str(split_once(value, "@")[1][1]).value,
                               VersionRequest_from_str(split_once(value, "@")[1][2]).value)
    ELSE IF parse_implementation(value, 1) # None
    THEN parse_implementation(value, 1)[1]
    ELSE IF find_char(value, MAIN_SEPARATOR) # 0 THEN File(value)
    ELSE ExecutableName(value)

\* InterpreterRequest::parse
parse(value) ==
    IF VersionRequest_from_str(value).ok
    THEN Version(VersionRequest_from_str(value).value)
    ELSE IF /\ strip_prefix(value, <<"p", "y", "t", "h", "o", "n">>) # None
            /\ VersionRequest_from_str(
                   strip_prefix(value, <<"p", "y", "t", "h", "o", "n">>)[1]).ok
    THEN Version(VersionRequest_from_str(
                     strip_prefix(value, <<"p", "y", "t", "h", "o", "n">>)[1]).value)
    ELSE IF /\ split_once(value, "@") # None
            /\ ImplementationName_from_str(split_once(value, "@")[1][1]).ok
            /\ VersionRequest_from_str(split_once(value, "@")[1][2]).ok
    THEN ImplementationVersion(ImplementationName_from_str(split_once(value, "@")[1][1]).value,
                               VersionRequest_from_str(split_once(value, "@")[1][2]).value)
    ELSE IF parse_implementation(value, 1) # None
    THEN parse_implementation(value, 1)[1]
    ELSE IF is_dir(value) THEN Directory(value)
    ELSE IF find_char(value, MAIN_SEPARATOR) # 0 THEN File(value)
    ELSE ExecutableName(value)

\* a call of InterpreterRequest::parse(value)
Parse ==
    /\ op.name = "InterpreterRequest::parse"
    /\ pc = "idle"
    /\ result' = parse(op.value)
    /\ pc' = "done"
    /\ UNCHANGED <<world, op, request, sources, stream, pos, invoked, queried, pass, final>>
    /\ UNCHANGED wvars

\* a call of VersionRequest::from_str(s)
FromStr ==
    /\ op.name = "VersionRequest::from_str"
    /\ pc = "idle"
    /\ result' = VersionRequest_from_str(op.value)
    /\ pc' = "parsed"
    /\ UNCHANGED <<world, op, request, sources, stream, pos, invoked, queried, pass, final>>
    /\ UNCHANGED wvars

\* to_string() of the VersionRequest that from_str returned
Display ==
    /\ op.name = "VersionRequest::from_str"
    /\ pc = "parsed"
    /\ result.ok
    /\ final' = VersionRequest_to_string(result.value)
    /\ pc' = "done"
    /\ UNCHANGED <<world, op, request, sources, stream, pos, invoked, queried, result, pass>>
    /\ UNCHANGED wvars

----------------------------------------------------------------------------
(* PythonEnvironment::lock (crates/uv-interpreter/src/environment.rs)      *)

\* the number of values cache_key::digest is taken to have
DigestSpace == 5

\* the code of one path component in the digest
ComponentCode(name) ==
    CASE name = "usr" -> 1
      [] name = "home" -> 2
      [] name = "venv" -> 3
      [] OTHER -> 4

\* cache_key::digest: a string that the path alone determines
digest(path) ==
    IF path = <<>> THEN "0"
    ELSE ToString((ComponentCode(path[Len(path)]) + 3 * Len(path)) % DigestSpace)

\* env::temp_dir
temp_dir == world.temp_dir

\* LockedFile::acquire(path, resource): the lock file taken
acquire(path, resource) == [path |-> path, resource |-> resource]

\* variant of lock that looks at is_virtualenv before target
lock_virtualenv_first(self) ==
    IF self.interpreter.is_virtualenv
    THEN acquire(join(self.root, <<".lock">>), self.root)
    ELSE IF self.interpreter.target # None
    THEN acquire(join(self.interpreter.target[1].root, <<".lock">>),
                 self.interpreter.target[1].root)
    ELSE acquire(join(temp_dir, <<"uv-" \o digest(self.root) \o ".lock">>), self.root)

\* PythonEnvironment::lock
lock(self) ==
    IF self.interpreter.target # None
    THEN acquire(join(self.interpreter.target[1].root, <<".lock">>),
                 self.interpreter.target[1].root)
    ELSE IF self.interpreter.is_virtualenv
    THEN acquire(join(self.root, <<".lock">>), self.root)
    ELSE acquire(join(temp_dir, <<"uv-" \o digest(self.root) \o ".lock">>), self.root)

\* one of the environments calls lock()
Lock ==
    /\ op.name = "lock"
    /\ \E i \in 1..Len(op.environments) :
          /\ result[i] = None
          /\ result' = [result EXCEPT ![i] = Some(lock(op.environments[i]))]
    /\ UNCHANGED <<world, op, pc, request, sources, stream, pos, invoked, queried, pass, final>>
    /\ UNCHANGED wvars

----------------------------------------------------------------------------
(* PythonEnvironment::find (crates/uv-interpreter/src/environment.rs).     *)
(* `pass` counts the find_interpreter calls of the operation: the first is *)
(* the one of from_requested_python, from_default_python or                *)
(* from_virtualenv, the second the one of from_default_python after a      *)
(* virtual-environment search that found nothing.                          *)

\* variant of is_allowed that lets every policy use a system Python
is_allowed_always(system) == TRUE

\* SystemPython::is_allowed
is_allowed(system) == system \in {"Allowed", "Required"}

\* SystemPython::is_preferred
is_preferred(system) == system = "Required"

\* `find_interpreter(..)??` followed by `Ok(Self { root, interpreter })`: the first `?`
\* returns the Error, the second turns an InterpreterNotFound into Error::NotFound
into_environment(res) ==
    CASE res.tag = "Found" -> [tag |-> "Ok", interpreter |-> res.interpreter]
      [] res.tag = "NotFound" ->
           OuterErr(Error("NotFound", [variant |-> res.variant, args |-> res.args]))
      [] res.tag = "Err" -> res

\* PythonEnvironment::find up to its first find_interpreter call: from_requested_python
\* for an explicit python, from_default_python for SystemPython::Required, else
\* from_virtualenv
EnvironmentFind ==
    /\ op.name = "PythonEnvironment::find"
    /\ pc = "idle"
    /\ pass = 0
    /\ final = Pending
    /\ IF op.python # None
       THEN /\ sources' = from_env("Allowed")
            /\ request' = parse(op.python[1])
       ELSE IF is_preferred(op.system)
       THEN /\ request' = Version(Default)
            /\ sources' = from_sources({SearchPath, PyLauncher})
       ELSE /\ sources' = virtualenvs
            /\ request' = Version(Default)
    /\ pass' = 1
    /\ pc' = "call"
    /\ queried' = <<>>
    /\ UNCHANGED <<world, op, stream, pos, invoked, result, final>>
    /\ UNCHANGED wvars

\* PythonEnvironment::find: from_virtualenv returned Err(Error::NotFound(_)) and the
\* policy allows a system Python, so from_default_python is called
EnvironmentFallback ==
    /\ op.name = "PythonEnvironment::find"
    /\ pc = "done"
    /\ pass = 1
    /\ final = Pending
    /\ op.python = None
    /\ ~is_preferred(op.system)
    /\ result.tag = "NotFound"
    /\ is_allowed(op.system)
    /\ request' = Version(Default)
    /\ sources' = from_sources({SearchPath, PyLauncher})
    /\ pass' = 2
    /\ pc' = "call"
    /\ stream' = <<>>
    /\ pos' = 0
    /\ invoked' = {}
    /\ queried' = <<>>
    /\ UNCHANGED <<world, op, result, final>>
    /\ UNCHANGED wvars

\* PythonEnvironment::find returns: the environment of the interpreter found, or the
\* error of the last search
EnvironmentReturn ==
    /\ op.name = "PythonEnvironment::find"
    /\ pc = "done"
    /\ pass \in 1..2
    /\ final = Pending
    /\ ~(/\ pass = 1
         /\ op.python = None
         /\ ~is_preferred(op.system)
         /\ result.tag = "NotFound"
         /\ is_allowed(op.system))
    /\ final' = into_environment(result)
    /\ UNCHANGED <<world, op, pc, request, sources, stream, pos, invoked, queried, result, pass>>
    /\ UNCHANGED wvars

----------------------------------------------------------------------------
(* Environments                                                            *)

\* the most stream items (candidates and producer failures) an environment of
\* SpecFind holds
MaxCandidates == 2
\* the most entries of PATH in an environment of SpecDefault and SpecBest
MaxDirs == 4

\* what an executable file does when the query script is run on it
Healthy(implementation_name, major, minor, patch) ==
    [tag |-> "Ok", implementation_name |-> implementation_name,
     major |-> major, minor |-> minor, patch |-> patch]
\* interpreter::Error::QueryScript, and any other interpreter::Error
QueryScript == [tag |-> "QueryScript"]
OtherQueryError == [tag |-> "Io"]

Answers ==
    {Healthy("cpython", 3, 12, 1), Healthy("pypy", 3, 12, 2), Healthy("pypy", 2, 7, 18),
     QueryScript, OtherQueryError}

\* an executable file at `path`
Exe(path, answer) ==
    [path |-> path, answer |-> answer, executable |-> TRUE, store_shim |-> FALSE,
     try_exists |-> [ok |-> TRUE, val |-> TRUE]]

\* the name a generic interpreter has in a directory of the search path
GenericName(windows) == IF windows THEN "python.exe" ELSE "python"

\* a directory of the search path holding one file
DirWith(path, name, file) == [path |-> path, is_dir |-> TRUE, files |-> (name :> file)]
EmptyDir(path) == [path |-> path, is_dir |-> TRUE, files |-> <<>>]
NotADir(path) == [path |-> path, is_dir |-> FALSE, files |-> <<>>]

\* the version an interpreter is declared to have by its toolchain / launcher entry
DeclaredVersion(answer) ==
    IF answer.tag = "Ok"
    THEN [major |-> answer.major, minor |-> answer.minor,
          patch |-> IF "declares_patch" \in DOMAIN answer THEN None ELSE Some(answer.patch)]
    ELSE [major |-> 3, minor |-> 12, patch |-> Some(1)]

Failure == [tag |-> "ProducerFailed"]

\* the answer of a CPython 3.12.1 whose toolchain declares the version 3.12, no patch
DeclaresNoPatch ==
    [tag |-> "Ok", implementation_name |-> "cpython", major |-> 3, minor |-> 12, patch |-> 1,
     declares_patch |-> FALSE]

\* how many items each producer contributes: at most MaxCandidates in all, at most one
\* virtual environment per kind, no launcher entries off Windows
Shapes(windows) ==
    {sh \in [{"active", "discovered", "managed", "search", "launcher"} -> 0..MaxCandidates] :
        /\ sh.active + sh.discovered + sh.managed + sh.search + sh.launcher <= MaxCandidates
        /\ sh.active <= 1
        /\ sh.discovered <= 1
        /\ windows \/ sh.launcher = 0}

\* the contents of a producer that contributes n items: n candidates, or (n = 1 and
\* the producer can fail) the failure of the producer
Contents(n, can_fail) ==
    [1..n -> Answers] \cup (IF can_fail /\ n = 1 THEN {<<Failure>>} ELSE {})

BuildWorld(windows, a, d, m, s, l) ==
    [windows |-> windows,
     UV_FORCE_MANAGED_PYTHON |-> None,
     UV_TEST_PYTHON_PATH |-> None,
     VIRTUAL_ENV |->
        MapSeq(LAMBDA x : [root |-> "active", python |-> Exe("active/bin/python", x)], a),
     working_dir_venv |->
        IF d = <<Failure>> THEN [ok |-> FALSE]
        ELSE [ok |-> TRUE,
              val |-> MapSeq(LAMBDA x : [root |-> ".venv",
                                         python |-> Exe(".venv/bin/python", x)], d)],
     toolchains |->
        IF m = <<Failure>> THEN [ok |-> FALSE]
        ELSE [ok |-> TRUE,
              val |-> [i \in 1..Len(m) |->
                          [python_version |-> DeclaredVersion(m[i]),
                           executable |-> Exe("toolchain" \o ToString(i) \o "/python", m[i])]]],
     PATH |->
        Some([i \in 1..Len(s) |->
                 DirWith("dir" \o ToString(i), GenericName(windows),
                         Exe("dir" \o ToString(i) \o "/" \o GenericName(windows), s[i]))]),
     py_list_paths |->
        IF l = <<Failure>> THEN [ok |-> FALSE]
        ELSE [ok |-> TRUE,
              val |-> [i \in 1..Len(l) |->
                          [major |-> DeclaredVersion(l[i]).major,
                           minor |-> DeclaredVersion(l[i]).minor,
                           executable_path |->
                               Exe("py" \o ToString(i) \o "/python.exe", l[i])]]]]

\* the contents of the managed toolchains: as Contents, and a toolchain may declare its
\* version without a patch
ManagedContents(n) == Contents(n, TRUE) \cup [1..n -> Answers \cup {DeclaresNoPatch}]

\* world is an environment whose five producers hold at most MaxCandidates items in all
IsStreamWorld ==
    \E windows \in BOOLEAN :
        \E sh \in Shapes(windows) :
            \E a \in Contents(sh.active, FALSE), d \in Contents(sh.discovered, TRUE),
               m \in ManagedContents(sh.managed), s \in Contents(sh.search, FALSE),
               l \in Contents(sh.launcher, TRUE) :
                world = BuildWorld(windows, a, d, m, s, l)

\* the directory UV_TEST_PYTHON_PATH names in the environments that set it
TestPythonDir(windows) ==
    DirWith("test", GenericName(windows),
            Exe("test/" \o GenericName(windows), Healthy("cpython", 3, 12, 1)))

\* the environment w with UV_FORCE_MANAGED_PYTHON and UV_TEST_PYTHON_PATH as given
WithEnv(w, force, test_path) ==
    [w EXCEPT !.UV_FORCE_MANAGED_PYTHON = force, !.UV_TEST_PYTHON_PATH = test_path]

\* world is an environment as in IsStreamWorld, with at least one of the variables
\* UV_FORCE_MANAGED_PYTHON and UV_TEST_PYTHON_PATH set
IsOverriddenWorld ==
    \E windows \in BOOLEAN :
        \E sh \in Shapes(windows) :
            \E a \in Contents(sh.active, FALSE), d \in Contents(sh.discovered, TRUE),
               m \in Contents(sh.managed, TRUE), s \in Contents(sh.search, FALSE),
               l \in Contents(sh.launcher, TRUE),
               force \in {None, Some("1")},
               test_path \in {None, Some(<<TestPythonDir(windows)>>)} :
                /\ force # None \/ test_path # None
                /\ world = WithEnv(BuildWorld(windows, a, d, m, s, l), force, test_path)

\* world is an environment with only a search path, of at most MaxCandidates entries
IsSearchOnlyWorld ==
    \E windows \in BOOLEAN, n \in 0..MaxCandidates :
        \E s \in Contents(n, FALSE) :
            world = BuildWorld(windows, <<>>, <<>>, <<>>, s, <<>>)

\* world is an environment with only a search path, in which UV_TEST_PYTHON_PATH is set
\* to nothing or to one directory
IsTestPathWorld ==
    \E windows \in BOOLEAN, n \in 0..MaxCandidates :
        \E s \in Contents(n, FALSE),
           test_path \in {Some(<<>>), Some(<<TestPythonDir(windows)>>)} :
            world = WithEnv(BuildWorld(windows, <<>>, <<>>, <<>>, s, <<>>), None, test_path)

Selectors ==
    {All,
     from_sources({ActiveEnvironment, SearchPath}),
     from_sources({DiscoveredEnvironment, ActiveEnvironment}),
     from_sources({ProvidedPath, SearchPath, PyLauncher, ManagedToolchain}),
     from_sources({ManagedToolchain}),
     from_sources({SearchPath, PyLauncher})}

EnumeratingRequests ==
    {Version(Default), Version(Major(3)), Version(MajorMinor(3, 12)),
     Version(MajorMinorPatch(3, 12, 1)),
     Implementation("pypy"),
     ImplementationVersion("pypy", MajorMinor(3, 12)),
     ImplementationVersion("pypy", MajorMinorPatch(3, 12, 1))}

\* what the file system answers for a provided path
TryExists == {[ok |-> FALSE], [ok |-> TRUE, val |-> FALSE], [ok |-> TRUE, val |-> TRUE]}

ProvidedFiles ==
    {[path |-> "/opt/python", answer |-> x, executable |-> TRUE, store_shim |-> FALSE,
      try_exists |-> t] : x \in Answers, t \in TryExists}

ProvidedDirectories ==
    {[path |-> "/opt/venv", try_exists |-> t, python |-> f] :
        t \in TryExists,
        f \in {[path |-> "/opt/venv/bin/python", answer |-> x, executable |-> TRUE,
                store_shim |-> FALSE, try_exists |-> u] :
                  x \in {Healthy("cpython", 3, 12, 1), QueryScript}, u \in TryExists}}

ProvidedRequests(windows) ==
    {File(f) : f \in ProvidedFiles}
    \cup {Directory(d) : d \in ProvidedDirectories}
    \cup {ExecutableName(GenericName(windows)), ExecutableName("foopython3")}

WorkspaceIdle ==
    /\ fs = <<>>
    /\ wpc = "idle"
    /\ wproject = <<>>
    /\ wworkspace = <<>>
    /\ wresult = <<>>

\* a call of find_interpreter(request, sources, cache)
InitFind ==
    /\ \/ /\ IsStreamWorld
          /\ op \in {[name |-> "find_interpreter", request |-> r, sources |-> s] :
                        r \in EnumeratingRequests, s \in Selectors}
       \/ /\ IsSearchOnlyWorld
          /\ op \in {[name |-> "find_interpreter", request |-> r, sources |-> s] :
                        r \in ProvidedRequests(world.windows), s \in Selectors}
       \/ /\ IsTestPathWorld
          /\ op \in {[name |-> "find_interpreter", request |-> r, sources |-> s] :
                        r \in {Version(Default), Version(MajorMinor(3, 12)),
                               ExecutableName(GenericName(world.windows))},
                        s \in Selectors}
    /\ pc = "call"
    /\ request = op.request
    /\ sources = op.sources
    /\ stream = <<>>
    /\ pos = 0
    /\ invoked = {}
    /\ queried = <<>>
    /\ result = Pending
    /\ pass = 0
    /\ final = Pending
    /\ WorkspaceIdle

NextFind == FindProvided \/ Construct \/ Pull \/ Exhausted

SpecFind == InitFind /\ [][NextFind]_vars

\* the name `python3` has in a directory of the search path
Python3Name(windows) == IF windows THEN "python3.exe" ELSE "python3"

\* an empty file `python` created with touch: it has no execute permission (and no
\* executable extension), and it is no interpreter
TouchedFile(path) ==
    [path |-> path, answer |-> OtherQueryError, executable |-> FALSE, store_shim |-> FALSE,
     try_exists |-> [ok |-> TRUE, val |-> TRUE]]

\* what one entry of PATH can be: a missing directory, an empty directory, a directory
\* with a touched file `python`, or a directory with one executable `python3` or `python`
PathEntryKinds ==
    {<<"missing">>, <<"empty">>, <<"touched">>}
    \cup {<<"python3", x>> : x \in {Healthy("cpython", 3, 12, 1), QueryScript, OtherQueryError}}
    \cup {<<"python", x>> : x \in {Healthy("cpython", 3, 12, 1), QueryScript, OtherQueryError}}

\* what an entry of PATH can be besides, on Windows: a directory whose python.exe is a
\* shim of the Windows Store, or a directory with a python.bat
WindowsEntryKinds ==
    {<<"shim", Healthy("cpython", 3, 12, 1)>>}
    \cup {<<"bat", x>> : x \in {Healthy("pypy", 3, 12, 2), OtherQueryError}}

\* entry number i of PATH, of kind k
PathEntry(windows, i, k) ==
    LET dir == "dir" \o ToString(i)
        name == IF k[1] = "python3" THEN Python3Name(windows) ELSE GenericName(windows)
    IN CASE k[1] = "missing" -> NotADir(dir)
         [] k[1] = "empty" -> EmptyDir(dir)
         [] k[1] = "touched" -> DirWith(dir, "python", TouchedFile(dir \o "/python"))
         [] k[1] = "shim" ->
              DirWith(dir, name, [Exe(dir \o "/" \o name, k[2]) EXCEPT !.store_shim = TRUE])
         [] k[1] = "bat" -> DirWith(dir, "python.bat", Exe(dir \o "/python.bat", k[2]))
         [] OTHER -> DirWith(dir, name, Exe(dir \o "/" \o name, k[2]))

\* a `py` launcher that lists nothing
NoLauncher == [ok |-> TRUE, val |-> <<>>]

\* what py_list_paths() can answer on Windows: a failure, nothing, or one or two entries
LauncherAnswers ==
    {[ok |-> FALSE], NoLauncher}
    \cup {[ok |-> TRUE,
           val |-> [i \in 1..Len(l) |->
                       [major |-> DeclaredVersion(l[i]).major,
                        minor |-> DeclaredVersion(l[i]).minor,
                        executable_path |-> Exe("py" \o ToString(i) \o "/python.exe", l[i])]]] :
             l \in {<<Healthy("pypy", 2, 7, 18)>>, <<OtherQueryError>>,
                    <<Healthy("pypy", 2, 7, 18), Healthy("cpython", 3, 12, 1)>>}}

\* an environment without virtual environments and managed toolchains: a search path
\* whose entries are of the given kinds, the answer of the `py` launcher, and
\* UV_TEST_PYTHON_PATH
PathWorld(windows, kinds, launcher, test_path) ==
    [windows |-> windows,
     UV_FORCE_MANAGED_PYTHON |-> None,
     UV_TEST_PYTHON_PATH |-> test_path,
     VIRTUAL_ENV |-> None,
     working_dir_venv |-> [ok |-> TRUE, val |-> <<>>],
     toolchains |-> [ok |-> TRUE, val |-> <<>>],
     PATH |-> Some([i \in 1..Len(kinds) |-> PathEntry(windows, i, kinds[i])]),
     py_list_paths |-> launcher]

\* the most PATH entries in the environments with a launcher or an override
MaxLauncherDirs == 2

\* world is an environment with a search path of at most MaxDirs entries, or one with a
\* shorter search path in which, on Windows, PATH can hold store shims and python.bat
\* files and the `py` launcher answers, and in which UV_TEST_PYTHON_PATH can be set
IsPathWorld ==
    \/ \E windows \in BOOLEAN, n \in 0..MaxDirs :
          \E kinds \in [1..n -> PathEntryKinds] :
              world = PathWorld(windows, kinds, NoLauncher, None)
    \/ \E windows \in BOOLEAN, n \in 0..MaxLauncherDirs :
          \E kinds \in [1..n -> PathEntryKinds
                                 \cup (IF windows THEN WindowsEntryKinds ELSE {})],
             launcher \in (IF windows THEN LauncherAnswers ELSE {NoLauncher}),
             test_path \in {None, Some(<<>>), Some(<<TestPythonDir(windows)>>)} :
              world = PathWorld(windows, kinds, launcher, test_path)

\* a call of find_default_interpreter(cache)
InitDefault ==
    /\ IsPathWorld
    /\ op = [name |-> "find_default_interpreter"]
    /\ pc = "idle"
    /\ request = <<>>
    /\ sources = <<>>
    /\ stream = <<>>
    /\ pos = 0
    /\ invoked = {}
    /\ queried = <<>>
    /\ result = Pending
    /\ pass = 0
    /\ final = Pending
    /\ WorkspaceIdle

NextDefault == DefaultCall \/ Construct \/ Pull \/ Exhausted \/ DefaultReturn

SpecDefault == InitDefault /\ [][NextDefault]_vars

BestRequests ==
    {Version(Default), Version(MajorMinor(3, 12)), Version(MajorMinorPatch(3, 12, 1)),
     Implementation("pypy"),
     ImplementationVersion("pypy", MajorMinor(3, 12)),
     ImplementationVersion("pypy", MajorMinorPatch(3, 12, 1)),
     File([path |-> "/opt/python", answer |-> Healthy("pypy", 2, 7, 18), executable |-> TRUE,
           store_shim |-> FALSE, try_exists |-> [ok |-> TRUE, val |-> TRUE]]),
     File([path |-> "/opt/python", answer |-> Healthy("pypy", 2, 7, 18), executable |-> TRUE,
           store_shim |-> FALSE, try_exists |-> [ok |-> TRUE, val |-> FALSE]])}

SystemPython == {"Disallowed", "Allowed", "Required"}

\* a call of find_best_interpreter(request, system, cache)
InitBest ==
    /\ IsStreamWorld \/ IsOverriddenWorld
    /\ op \in {[name |-> "find_best_interpreter", request |-> r, system |-> sy] :
                  r \in BestRequests, sy \in SystemPython}
    /\ pc = "idle"
    /\ request = <<>>
    /\ sources = <<>>
    /\ stream = <<>>
    /\ pos = 0
    /\ invoked = {}
    /\ queried = <<>>
    /\ result = Pending
    /\ pass = 0
    /\ final = Pending
    /\ WorkspaceIdle

NextBest ==
    BestCall \/ FindProvided \/ Construct \/ Pull \/ Exhausted \/ BestRelax \/ BestFallback
    \/ BestReturn

SpecBest == InitBest /\ [][NextBest]_vars

----------------------------------------------------------------------------
(* File systems for workspace discovery                                    *)

\* the most package directories beneath ws/packages
MaxPackages == 2

PackageName(i) == "pkg" \o ToString(i)

\* contents of a pyproject.toml: something toml::from_str rejects, or a manifest
Garbage == [toml |-> FALSE]
Manifest(project, workspace, tool_uv_sources) ==
    [toml |-> TRUE, project |-> project, workspace |-> workspace, sources |-> tool_uv_sources]
Project(name) == [name |-> name]
ToolUvWorkspace(members, exclude) == [members |-> members, exclude |-> exclude]

SourcesOptions == {None, Some("pkg1" :> "workspace")}

MembersOptions ==
    {None, Some(<< <<"packages", "*">> >>), Some(<< <<"packages", "pkg1">> >>),
     Some(<< <<"packages", InvalidWildcard>> >>)}

ExcludeOptions ==
    {None, Some(<< <<"packages", "pkg1">> >>), Some(<< <<"packages", "*">> >>)}

\* what ws/pyproject.toml can hold; <<>> stands for no file
RootManifests ==
    {<<>>, <<Garbage>>, <<Manifest(None, None, None)>>}
    \cup {<<Manifest(Some(Project("albatross")), None, s)>> : s \in SourcesOptions}
    \cup {<<Manifest(pj, Some(ToolUvWorkspace(m, e)), s)>> :
             pj \in {None, Some(Project("albatross"))},
             m \in MembersOptions, e \in ExcludeOptions, s \in SourcesOptions}

\* what ws/packages/pkg<i> can be: absent, or a directory with or without a manifest
PackageOptions(i) ==
    {<<"absent">>, <<"dir">>, <<"dir", Garbage>>, <<"dir", Manifest(None, None, None)>>,
     <<"dir", Manifest(Some(Project(PackageName(i))), None, None)>>,
     <<"dir", Manifest(Some(Project("albatross")), None, None)>>}

Dir(readable) == [kind |-> "dir", readable |-> readable]
FileNode(content) == [kind |-> "file", content |-> content]

\* the function with the given graph
FunctionOf(pairs) ==
    [x \in {pair[1] : pair \in pairs} |-> (CHOOSE pair \in pairs : pair[1] = x)[2]]

\* the tree /ws, /ws/packages, /ws/packages/pkg<i> with the given manifests
BuildFs(root, packages_readable, packages_manifest, pkgs) ==
    FunctionOf(
        {<< <<>>, Dir(TRUE) >>, << <<"ws">>, Dir(TRUE) >>,
         << <<"ws", "packages">>, Dir(packages_readable) >>}
        \cup {<< <<"ws", "pyproject.toml">>, FileNode(root[k]) >> : k \in 1..Len(root)}
        \cup {<< <<"ws", "packages", "pyproject.toml">>, FileNode(packages_manifest[k]) >> :
                 k \in 1..Len(packages_manifest)}
        \cup {<< <<"ws", "packages", PackageName(i)>>, Dir(TRUE) >> :
                 i \in {j \in 1..Len(pkgs) : pkgs[j][1] = "dir"}}
        \cup {<< <<"ws", "packages", PackageName(i), "pyproject.toml">>, FileNode(pkgs[i][2]) >> :
                 i \in {j \in 1..Len(pkgs) : Len(pkgs[j]) = 2}})

\* fs is such a tree
IsWorkspaceFs ==
    \E root \in RootManifests, packages_readable \in BOOLEAN,
       packages_manifest \in {<<>>, <<Manifest(None, None, None)>>} :
        \E pkgs \in {f \in [1..MaxPackages -> UNION {PackageOptions(i) : i \in 1..MaxPackages}] :
                        \A i \in 1..MaxPackages : f[i] \in PackageOptions(i)} :
            fs = BuildFs(root, packages_readable, packages_manifest, pkgs)

\* the calls made: discover on every directory, from_pyproject_toml on two manifests
WorkspaceCalls ==
    {[name |-> "discover", path |-> p] :
        p \in {<<"ws">>, <<"ws", "packages">>}
              \cup {<<"ws", "packages", PackageName(i)>> : i \in 1..MaxPackages}}
    \cup {[name |-> "from_pyproject_toml", path |-> join(p, PyprojectToml)] :
             p \in {<<"ws">>, <<"ws", "packages", PackageName(1)>>}}

\* no interpreter discovery is under way
InterpreterIdle ==
    /\ world = PathWorld(FALSE, <<>>, NoLauncher, None)
    /\ pc = "idle"
    /\ request = <<>>
    /\ sources = <<>>
    /\ stream = <<>>
    /\ pos = 0
    /\ invoked = {}
    /\ queried = <<>>
    /\ result = Pending
    /\ pass = 0
    /\ final = Pending

\* a call of ProjectWorkspace::discover(path) or ::from_pyproject_toml(pyproject_path)
InitWorkspace ==
    /\ IsWorkspaceFs
    /\ op \in WorkspaceCalls
    /\ wpc = "idle"
    /\ wproject = <<>>
    /\ wworkspace = <<>>
    /\ wresult = <<>>
    /\ InterpreterIdle

NextWorkspace == Discover \/ FromPyprojectToml \/ ResolveWorkspace \/ CollectMembers

SpecWorkspace == InitWorkspace /\ [][NextWorkspace]_vars

----------------------------------------------------------------------------
(* Search paths with several interpreters per directory                    *)

\* the most entries of the search path in an environment of SpecSearchPath
MaxSearchDirs == 2

\* the names the files of a search-path directory can have
FileNames(windows) ==
    IF windows
    THEN {"python3.12.exe", "python3.exe", "python.exe", "python.bat"}
    ELSE {"python3.12.1", "python3.12", "python3", "python"}

\* entry number i of the search path called `label`: no directory when names = <<>>,
\* else a directory with one executable file for each name in names[1]
SearchEntry(label, i, names) ==
    LET dir == label \o ToString(i) IN
    IF names = None THEN NotADir(dir)
    ELSE [path |-> dir, is_dir |-> TRUE,
          files |-> [name \in names[1] |->
                        Exe(dir \o "/" \o name, Healthy("cpython", 3, 12, 1))]]

\* the numbers the version components are drawn from
VersionNumbers == {0, 3, 12, 255}

\* the version requests handed to possible_names
VersionRequests ==
    {Default}
    \cup {Major(a) : a \in VersionNumbers}
    \cup {MajorMinor(a, b) : a, b \in VersionNumbers}
    \cup {MajorMinorPatch(a, b, c) : a, b, c \in VersionNumbers}

\* a call of python_executables_from_search_path on a machine whose PATH has at most
\* MaxSearchDirs entries and whose UV_TEST_PYTHON_PATH is unset or names one directory;
\* or a call of possible_names
InitSearchPath ==
    /\ \/ /\ \E windows \in BOOLEAN, n \in 0..MaxSearchDirs :
                \E names \in [1..n -> {None} \cup {Some(x) : x \in SUBSET FileNames(windows)}],
                   test_path \in {None, Some(<<TestPythonDir(windows)>>)} :
                    world = WithEnv([PathWorld(windows, <<>>, NoLauncher, None) EXCEPT
                                        !.PATH = Some([i \in 1..n |->
                                                          SearchEntry("dir", i, names[i])])],
                                    None, test_path)
          /\ op \in {[name |-> "python_executables_from_search_path", version |-> v] :
                        v \in {None, Some(Default), Some(Major(3)), Some(MajorMinor(3, 12)),
                               Some(MajorMinorPatch(3, 12, 1))}}
       \/ /\ \E windows \in BOOLEAN : world = PathWorld(windows, <<>>, NoLauncher, None)
          /\ op \in {[name |-> "possible_names", version |-> v] : v \in VersionRequests}
    /\ pc = "idle"
    /\ request = <<>>
    /\ sources = <<>>
    /\ stream = <<>>
    /\ pos = 0
    /\ invoked = {}
    /\ queried = <<>>
    /\ result = Pending
    /\ pass = 0
    /\ final = Pending
    /\ WorkspaceIdle

NextSearchPath == PossibleNames \/ ScanSearchPath

SpecSearchPath == InitSearchPath /\ [][NextSearchPath]_vars

----------------------------------------------------------------------------
(* Calls of PythonEnvironment::find                                        *)

\* the strings given as `python`: python3.12 and cpython
RequestedPythons ==
    {<<"p", "y", "t", "h", "o", "n", "3", ".", "1", "2">>,
     <<"c", "p", "y", "t", "h", "o", "n">>}

\* a call of PythonEnvironment::find(python, system, cache)
InitEnvironment ==
    /\ IsStreamWorld \/ IsOverriddenWorld
    /\ op \in {[name |-> "PythonEnvironment::find", python |-> p, system |-> sy] :
                  p \in {None} \cup {Some(s) : s \in RequestedPythons}, sy \in SystemPython}
    /\ pc = "idle"
    /\ request = <<>>
    /\ sources = <<>>
    /\ stream = <<>>
    /\ pos = 0
    /\ invoked = {}
    /\ queried = <<>>
    /\ result = Pending
    /\ pass = 0
    /\ final = Pending
    /\ WorkspaceIdle

NextEnvironment ==
    EnvironmentFind \/ Construct \/ Pull \/ Exhausted \/ EnvironmentFallback
    \/ EnvironmentReturn

SpecEnvironment == InitEnvironment /\ [][NextEnvironment]_vars

----------------------------------------------------------------------------
(* Environments that are locked                                            *)

\* the number of environments on which lock() is called
MaxEnvironments == 3

\* the directories the environments and their targets are rooted at
Roots == {<<"usr">>, <<"home", "venv">>}

\* a PythonEnvironment: its root, and what its interpreter says of --target and of
\* being a virtual environment
PythonEnvironments ==
    {[root |-> r, interpreter |-> [target |-> t, is_virtualenv |-> v]] :
        r \in Roots, t \in {None} \cup {Some([root |-> x]) : x \in Roots}, v \in BOOLEAN}

\* MaxEnvironments calls of lock(), on environments of one machine
InitLock ==
    /\ world \in {[temp_dir |-> d] : d \in {<<"tmp">>, <<"var", "tmp">>}}
    /\ op \in {[name |-> "lock", environments |-> e] :
                  e \in [1..MaxEnvironments -> PythonEnvironments]}
    /\ result = [i \in 1..MaxEnvironments |-> None]
    /\ pc = "idle"
    /\ request = <<>>
    /\ sources = <<>>
    /\ stream = <<>>
    /\ pos = 0
    /\ invoked = {}
    /\ queried = <<>>
    /\ pass = 0
    /\ final = Pending
    /\ WorkspaceIdle

NextLock == Lock

SpecLock == InitLock /\ [][NextLock]_vars

----------------------------------------------------------------------------
(* Strings for request parsing                                             *)

\* the most dot-separated components of a string handed to VersionRequest::from_str
MaxComponents == 4
\* the largest number handed to VersionRequest::from_str as a single component
MaxNumber == 300

\* 3, 12, 0, 255, 256, foo, the empty string, +3 and 03
Components ==
    {<<"3">>, <<"1", "2">>, <<"0">>, <<"2", "5", "5">>, <<"2", "5", "6">>,
     <<"f", "o", "o">>, <<>>, <<"+", "3">>, <<"0", "3">>}

\* the components cs joined with dots
RECURSIVE JoinDots(_)
JoinDots(cs) ==
    IF Len(cs) = 1 THEN cs[1] ELSE cs[1] \o <<".">> \o JoinDots(Tail(cs))

\* what precedes the version in the strings handed to InterpreterRequest::parse:
\* nothing, python, cpython, CPython, cpython@, pypy@, pypy, PyPy, py, foo, ./, a/, .\
RequestPrefixes ==
    {<<>>,
     <<"p", "y", "t", "h", "o", "n">>,
     <<"c", "p", "y", "t", "h", "o", "n">>,
     <<"C", "P", "y", "t", "h", "o", "n">>,
     <<"c", "p", "y", "t", "h", "o", "n", "@">>,
     <<"p", "y", "p", "y", "@">>,
     <<"p", "y", "p", "y">>,
     <<"P", "y", "P", "y">>,
     <<"p", "y">>,
     <<"f", "o", "o">>,
     <<".", "/">>,
     <<"a", "/">>,
     <<".", "\\">>}

\* what follows: nothing, 3, 3.12, 3.12.1, 3.256, 3.12.1.0, +3, foo
RequestSuffixes ==
    {<<>>,
     <<"3">>,
     <<"3", ".", "1", "2">>,
     <<"3", ".", "1", "2", ".", "1">>,
     <<"3", ".", "2", "5", "6">>,
     <<"3", ".", "1", "2", ".", "1", ".", "0">>,
     <<"+", "3">>,
     <<"f", "o", "o">>}

\* the strings that name the working directory, which Path::is_dir always finds:
\* ./ everywhere, .\ where the backslash separates components
WorkingDirectory(windows) ==
    {<<".", "/">>} \cup (IF windows THEN {<<".", "\\">>} ELSE {})

\* a call of InterpreterRequest::parse(value), where value may name a directory, or
\* of VersionRequest::from_str(s) followed by to_string()
InitParse ==
    /\ \/ \E windows \in BOOLEAN, prefix \in RequestPrefixes, suffix \in RequestSuffixes,
             directory \in BOOLEAN :
            /\ directory => prefix \o suffix # <<>>
            /\ prefix \o suffix \in WorkingDirectory(windows) => directory
            /\ op = [name |-> "InterpreterRequest::parse", value |-> prefix \o suffix]
            /\ world = [windows |-> windows,
                        dirs |-> IF directory THEN {prefix \o suffix} ELSE {}]
       \/ /\ \/ \E n \in 0..MaxNumber :
                    op = [name |-> "VersionRequest::from_str", value |-> u8_to_string(n)]
             \/ \E n \in 1..MaxComponents :
                    \E cs \in [1..n -> Components] :
                        op = [name |-> "VersionRequest::from_str", value |-> JoinDots(cs)]
          /\ world = [windows |-> FALSE, dirs |-> {}]
    /\ pc = "idle"
    /\ request = <<>>
    /\ sources = <<>>
    /\ stream = <<>>
    /\ pos = 0
    /\ invoked = {}
    /\ queried = <<>>
    /\ result = Pending
    /\ pass = 0
    /\ final = Pending
    /\ WorkspaceIdle

NextParse == Parse \/ FromStr \/ Display

SpecParse == InitParse /\ [][NextParse]_vars

----------------------------------------------------------------------------
(* Properties of find_interpreter (checked under SpecFind)                 *)

\* position of a source in the order ActiveEnvironment, DiscoveredEnvironment,
\* ManagedToolchain, SearchPath, PyLauncher
VisitRank(source) ==
    CASE source = ActiveEnvironment -> 1
      [] source = DiscoveredEnvironment -> 2
      [] source = ManagedToolchain -> 3
      [] source = SearchPath -> 4
      [] source = PyLauncher -> 5

\* the interpreter behind stream item i satisfies the request `req`
Satisfies(req, interpreter) ==
    CASE req[1] = "Version" -> matches_interpreter(req[2], interpreter)
      [] req[1] = "Implementation" -> interpreter.implementation_name = req[2]
      [] req[1] = "ImplementationVersion" ->
           matches_interpreter(req[3], interpreter)
           /\ interpreter.implementation_name = req[2]

\* stream item i is a candidate whose query succeeds
Queryable(items, i) == items[i].ok /\ Query(items[i].path).ok

\* stream item i is a candidate whose query succeeds and satisfies `req`
GoodMatch(req, items, i) ==
    Queryable(items, i) /\ Satisfies(req, Query(items[i].path).interpreter)

\* the error stream item i carries: its producer's, or the one its query raises
Failing(items, i) == ~Queryable(items, i)
ErrorOf(items, i) == IF items[i].ok THEN Query(items[i].path).err ELSE items[i].err
IsQueryScript(err) == err.kind = "Query" /\ err.detail = "QueryScript"

\* the candidates among the first n stream items, in order
CandidatesUpTo(items, n) ==
    LET idx == SelectSeq([i \in 1..n |-> i], LAMBDA i : items[i].ok)
    IN [k \in 1..Len(idx) |-> items[idx[k]].path]

FindDone == op.name = "find_interpreter" /\ pc = "done"

\* C1: with selector All and an enumerating request, the interpreter returned comes
\* from the earliest source, in the order ActiveEnvironment, DiscoveredEnvironment,
\* ManagedToolchain, SearchPath, PyLauncher, among the sources that hold a candidate
\* matching the request.
C1_SourceOrder ==
    (FindDone /\ request[1] \in StreamRequests /\ sources = All /\ result.tag = "Found")
    => \A i \in 1..Len(stream) :
          GoodMatch(request, stream, i)
          => VisitRank(result.source) <= VisitRank(stream[i].source)

\* C1 witness: two different sources hold a matching candidate and one is returned
C1_Witness ==
    /\ FindDone
    /\ request[1] \in StreamRequests
    /\ sources = All
    /\ result.tag = "Found"
    /\ \E i, j \in 1..Len(stream) :
          /\ GoodMatch(request, stream, i)
          /\ GoodMatch(request, stream, j)
          /\ stream[i].source = ManagedToolchain
          /\ stream[j].source = SearchPath

\* C2: a producer has been invoked only if the consumer has pulled every item of every
\* earlier source; and once an interpreter from some source is returned, no producer
\* of a later source has been invoked.
C2_ProducersInvokedLazily ==
    /\ \A s \in invoked :
          \A i \in 1..Len(stream) :
              VisitRank(stream[i].source) < VisitRank(s) => i <= pos
    /\ (FindDone /\ result.tag = "Found")
       => \A s \in invoked : VisitRank(s) <= VisitRank(result.source)

\* C3: find_interpreter(Version(v)) returns the first candidate of the stream whose
\* interpreter matches v; the candidates before it were queried and did not match, and
\* nothing after it is queried.  Conversely, when every candidate before the first
\* match can be queried, that match is returned.
C3_VersionFirstMatch ==
    (FindDone /\ request[1] = "Version")
    => /\ result.tag = "Found"
          => \E i \in 1..Len(stream) :
                /\ GoodMatch(request, stream, i)
                /\ \A j \in 1..(i - 1) :
                      Queryable(stream, j) /\ ~GoodMatch(request, stream, j)
                /\ result = Found(stream[i].source, Query(stream[i].path).interpreter)
                /\ queried = CandidatesUpTo(stream, i)
       /\ \A i \in 1..Len(stream) :
             (GoodMatch(request, stream, i) /\ \A j \in 1..(i - 1) : Queryable(stream, j))
             => result.tag = "Found"

\* C3 witness: a queried candidate that does not match was skipped and a later one returned
C3_Witness ==
    /\ FindDone
    /\ request[1] = "Version"
    /\ result.tag = "Found"
    /\ Len(queried) = 2
    /\ ~matches_interpreter(request[2], Query(queried[1]).interpreter)

\* C7: find_interpreter(Implementation(i)) returns the first candidate whose
\* implementation name is i, skipping candidates that do not match and candidates whose
\* query fails with QueryScript; any other error met first is returned as the outer
\* Err and nothing after it is pulled.
C7_ImplementationSkipsQueryScript ==
    (FindDone /\ request[1] = "Implementation")
    => LET Stops(i) ==
               GoodMatch(request, stream, i)
               \/ (Failing(stream, i) /\ ~IsQueryScript(ErrorOf(stream, i)))
       IN /\ result.tag = "NotFound" => \A i \in 1..Len(stream) : ~Stops(i)
          /\ result.tag # "NotFound"
             => /\ pos \in 1..Len(stream)
                /\ Stops(pos)
                /\ \A j \in 1..(pos - 1) : ~Stops(j)
                /\ queried = CandidatesUpTo(stream, pos)
                /\ result = IF GoodMatch(request, stream, pos)
                            THEN Found(stream[pos].source, Query(stream[pos].path).interpreter)
                            ELSE OuterErr(ErrorOf(stream, pos))

\* C7 witness: a candidate failing with QueryScript was skipped and a later one returned
C7_Witness ==
    /\ FindDone
    /\ request[1] = "Implementation"
    /\ result.tag = "Found"
    /\ Len(queried) = 2
    /\ ~Query(queried[1]).ok
    /\ IsQueryScript(Query(queried[1]).err)

\* C8: during find_interpreter(ImplementationVersion(i, v)) a QueryScript failure is
\* skipped: it is never the error returned, and a later candidate matching i and v is
\* returned when only QueryScript failures and non-matching candidates precede it.
C8_ImplementationVersionSkipsQueryScript ==
    (FindDone /\ request[1] = "ImplementationVersion")
    => /\ result.tag = "Err" => ~IsQueryScript(result.err)
       /\ \A i \in 1..Len(stream) :
             (/\ GoodMatch(request, stream, i)
              /\ \A j \in 1..(i - 1) :
                    Queryable(stream, j) \/ IsQueryScript(ErrorOf(stream, j)))
             => result.tag = "Found"

\* C10: for Version, File, Directory and ExecutableName requests the first error met
\* before a match (of a producer, of the file system, of a query, QueryScript included)
\* is returned as the outer Err and no candidate after it is tried.
C10_ErrorsShortCircuit ==
    FindDone
    => /\ request[1] = "Version"
          => \A i \in 1..Len(stream) :
                (/\ Failing(stream, i)
                 /\ \A j \in 1..(i - 1) :
                       Queryable(stream, j) /\ ~GoodMatch(request, stream, j))
                => /\ result = OuterErr(ErrorOf(stream, i))
                   /\ pos = i
                   /\ queried = CandidatesUpTo(stream, i)
       /\ (request[1] = "File" /\ contains(sources, ProvidedPath))
          => /\ ~try_exists(request[2]).ok => result = OuterErr(Error("IO", "")) /\ queried = <<>>
             /\ (try_exists(request[2]) = [ok |-> TRUE, val |-> TRUE] /\ ~Query(request[2]).ok)
                => result = OuterErr(Query(request[2]).err)
       /\ (request[1] = "Directory" /\ contains(sources, ProvidedPath))
          => /\ ~try_exists(request[2]).ok => result = OuterErr(Error("IO", "")) /\ queried = <<>>
             /\ (try_exists(request[2]) = [ok |-> TRUE, val |-> TRUE]
                 /\ ~try_exists(request[2].python).ok)
                => result = OuterErr(Error("IO", "")) /\ queried = <<>>
             /\ (try_exists(request[2]) = [ok |-> TRUE, val |-> TRUE]
                 /\ try_exists(request[2].python) = [ok |-> TRUE, val |-> TRUE]
                 /\ ~Query(request[2].python).ok)
                => result = OuterErr(Query(request[2].python).err)
       /\ (request[1] = "ExecutableName" /\ contains(sources, SearchPath))
          => \A d \in 1..Len(world.PATH[1]) :
                (/\ request[2] \in DOMAIN world.PATH[1][d].files
                 /\ \A e \in 1..(d - 1) : request[2] \notin DOMAIN world.PATH[1][e].files
                 /\ ~Query(world.PATH[1][d].files[request[2]]).ok)
                => /\ result = OuterErr(Query(world.PATH[1][d].files[request[2]]).err)
                   /\ Len(queried) = 1

\* C10 witness: a Version search stopped by a QueryScript failure with a candidate left
C10_Witness ==
    /\ FindDone
    /\ request[1] = "Version"
    /\ result.tag = "Err"
    /\ IsQueryScript(result.err)
    /\ pos < Len(stream)
    /\ GoodMatch(request, stream, pos + 1)

\* stream item i makes the search for `req` return the outer Err when it is pulled
Surfaces(req, items, i) ==
    /\ Failing(items, i)
    /\ req[1] = "Implementation" => ~IsQueryScript(ErrorOf(items, i))

\* C11: when the stream is exhausted without a match and without a surfaced error,
\* find_interpreter returns a NotFound value (never the outer Err): NoPythonInstallation
\* for Version(Default), NoMatchingVersion for another Version, NoMatchingImplementation
\* for Implementation, NoMatchingImplementationVersion for ImplementationVersion, each
\* carrying the selector passed in; and NotFound is returned in no other case.
C11_ExhaustedNotFound ==
    (FindDone /\ request[1] \in StreamRequests)
    => /\ (\A i \in 1..Len(stream) :
               ~GoodMatch(request, stream, i) /\ ~Surfaces(request, stream, i))
          => /\ pos = Len(stream)
             /\ result =
                  CASE request = Version(Default) ->
                         NotFound("NoPythonInstallation", <<op.sources, Some(Default)>>)
                    [] request[1] = "Version" /\ request[2] # Default ->
                         NotFound("NoMatchingVersion", <<op.sources, request[2]>>)
                    [] request[1] = "Implementation" ->
                         NotFound("NoMatchingImplementation", <<op.sources, request[2]>>)
                    [] request[1] = "ImplementationVersion" ->
                         NotFound("NoMatchingImplementationVersion",
                                  <<op.sources, request[2], request[3]>>)
       /\ result.tag = "NotFound"
          => \A i \in 1..Len(stream) :
                ~GoodMatch(request, stream, i) /\ ~Surfaces(request, stream, i)

\* C11 witness: a search for 3.12 under a finite selector queried two candidates, none
\* matched, and NoMatchingVersion was returned
C11_Witness ==
    /\ FindDone
    /\ request = Version(MajorMinor(3, 12))
    /\ sources # All
    /\ Len(queried) = 2
    /\ result.tag = "NotFound"
    /\ result.variant = "NoMatchingVersion"

Missing == [ok |-> TRUE, val |-> FALSE]
Present == [ok |-> TRUE, val |-> TRUE]

\* no directory of PATH holds an executable file called `name`
Unresolved(name) ==
    \A d \in 1..Len(world.PATH[1]) :
        LET dir == world.PATH[1][d] IN
        ~(dir.is_dir /\ name \in DOMAIN dir.files /\ dir.files[name].executable)

\* C12: for File, Directory and ExecutableName requests the checks come in a fixed
\* order and a failed check means no query: a source that is not selected gives the
\* outer error SourceNotSelected whatever the file system would answer; then a path
\* that does not exist gives NotFound(FileNotFound), a directory without its
\* conventional executable gives ExecutableNotFoundInDirectory, and a name that is not
\* on the search path gives ExecutableNotFoundInSearchPath.
C12_PathChecksInOrder ==
    FindDone
    => /\ (request[1] \in {"File", "Directory"} /\ ~contains(sources, ProvidedPath))
          => /\ result = OuterErr(Error("SourceNotSelected", ProvidedPath))
             /\ queried = <<>>
       /\ (request[1] = "ExecutableName" /\ ~contains(sources, SearchPath))
          => /\ result = OuterErr(Error("SourceNotSelected", SearchPath))
             /\ queried = <<>>
       /\ (/\ request[1] \in {"File", "Directory"}
           /\ contains(sources, ProvidedPath)
           /\ request[2].try_exists = Missing)
          => /\ result = NotFound("FileNotFound", <<request[2].path>>)
             /\ queried = <<>>
       /\ (/\ request[1] = "Directory"
           /\ contains(sources, ProvidedPath)
           /\ request[2].try_exists = Present
           /\ request[2].python.try_exists = Missing)
          => /\ result = NotFound("ExecutableNotFoundInDirectory",
                                  <<request[2].path, request[2].python.path>>)
             /\ queried = <<>>
       /\ (/\ request[1] = "ExecutableName"
           /\ contains(sources, SearchPath)
           /\ Unresolved(request[2]))
          => /\ result = NotFound("ExecutableNotFoundInSearchPath", <<request[2]>>)
             /\ queried = <<>>
       /\ (request[1] \notin StreamRequests /\ queried # <<>>)
          => /\ Len(queried) = 1
             /\ request[1] = "File"
                => contains(sources, ProvidedPath) /\ request[2].try_exists = Present
             /\ request[1] = "Directory"
                => /\ contains(sources, ProvidedPath)
                   /\ request[2].try_exists = Present
                   /\ request[2].python.try_exists = Present
             /\ request[1] = "ExecutableName"
                => contains(sources, SearchPath) /\ ~Unresolved(request[2])

\* C12 witness: a File request under a selector without ProvidedPath, for a path whose
\* existence check would fail, returned SourceNotSelected
C12_Witness ==
    /\ FindDone
    /\ request[1] = "File"
    /\ ~contains(sources, ProvidedPath)
    /\ ~request[2].try_exists.ok
    /\ result = OuterErr(Error("SourceNotSelected", ProvidedPath))

\* find_interpreter has built the candidate stream
StreamBuilt ==
    /\ op.name = "find_interpreter"
    /\ pc \in {"iter", "done"}
    /\ request[1] \in StreamRequests

\* the version request handed to python_executables, if any
VersionSupplied ==
    CASE request[1] = "Version" -> Some(request[2])
      [] request[1] = "ImplementationVersion" -> Some(request[3])
      [] OTHER -> None

\* the declared version `declared` satisfies the version request v
DeclaredSatisfies(v, declared) ==
    /\ v[1] \in {"Major", "MajorMinor", "MajorMinorPatch"} => declared.major = v[2]
    /\ v[1] \in {"MajorMinor", "MajorMinorPatch"} => declared.minor = v[3]
    /\ v[1] = "MajorMinorPatch" => (declared.patch # None /\ declared.patch[1] = v[4])

\* toolchain number i is among the candidates of the stream
ToolchainStreamed(i) ==
    \E k \in 1..Len(stream) :
        /\ stream[k].ok
        /\ stream[k].source = ManagedToolchain
        /\ stream[k].path = world.toolchains.val[i].executable

\* C23: with a version request supplied to python_executables, a managed toolchain is
\* in the stream only if its declared version satisfies the request (Default: any;
\* Major: the major; MajorMinor: major and minor; MajorMinorPatch: all three, the
\* declared patch being present); with no version supplied every installed toolchain
\* is in the stream.
C23_ToolchainPrefilter ==
    (StreamBuilt /\ world.toolchains.ok)
    => \A i \in 1..Len(world.toolchains.val) :
          /\ (VersionSupplied # None /\ ToolchainStreamed(i))
             => DeclaredSatisfies(VersionSupplied[1], world.toolchains.val[i].python_version)
          /\ (VersionSupplied = None /\ contains(sources, ManagedToolchain))
             => ToolchainStreamed(i)

\* C23 witness: for the request 3.12.1 the stream holds a toolchain that declares
\* 3.12.1 and leaves out one that declares 3.12 without a patch
C23_Witness ==
    /\ StreamBuilt
    /\ world.toolchains.ok
    /\ VersionSupplied = Some(MajorMinorPatch(3, 12, 1))
    /\ \E i, j \in 1..Len(world.toolchains.val) :
          /\ ToolchainStreamed(i)
          /\ world.toolchains.val[i].python_version.patch = Some(1)
          /\ ~ToolchainStreamed(j)
          /\ world.toolchains.val[j].python_version = [major |-> 3, minor |-> 12, patch |-> None]

\* the paths of the files in the directories of a search path
FilesOn(entries) ==
    IF entries = None THEN {}
    ELSE UNION {{entries[1][d].files[name].path : name \in DOMAIN entries[1][d].files} :
                   d \in 1..Len(entries[1])}

\* the paths of the files that are on PATH and not in the override directories
OnlyOnPath == FilesOn(world.PATH) \ FilesOn(world.UV_TEST_PYTHON_PATH)

\* C24: with UV_TEST_PYTHON_PATH set, the search-path scan of find_interpreter and the
\* resolution of an ExecutableName request look at the override directories only: no
\* executable that is only on PATH is a candidate, is queried, or is returned.
C24_OverrideReplacesPath ==
    (op.name = "find_interpreter" /\ world.UV_TEST_PYTHON_PATH # None)
    => /\ \A k \in 1..Len(stream) :
             (stream[k].ok /\ stream[k].source = SearchPath)
             => stream[k].path.path \notin OnlyOnPath
       /\ \A k \in 1..Len(queried) : queried[k].path \notin OnlyOnPath
       /\ (pc = "done" /\ result.tag = "Found")
          => result.interpreter.sys_executable \notin OnlyOnPath

\* the part of C24 about the scan: with UV_TEST_PYTHON_PATH set, the search-path
\* candidates of the stream are files of the override directories
ScanUsesOverride ==
    (op.name = "find_interpreter" /\ world.UV_TEST_PYTHON_PATH # None)
    => \A k \in 1..Len(stream) :
          (stream[k].ok /\ stream[k].source = SearchPath)
          => stream[k].path.path \in FilesOn(world.UV_TEST_PYTHON_PATH)

\* with UV_TEST_PYTHON_PATH set, an ExecutableName request is resolved on PATH
ExecutableNameUsesPath ==
    (/\ FindDone
     /\ world.UV_TEST_PYTHON_PATH # None
     /\ request[1] = "ExecutableName"
     /\ result.tag = "Found")
    => result.interpreter.sys_executable \in FilesOn(world.PATH)

\* the source the arm of a File, Directory or ExecutableName request takes its
\* executable from
ProvidedSource(req) == IF req[1] = "ExecutableName" THEN SearchPath ELSE ProvidedPath

\* C27: when find_interpreter returns an interpreter, its source is one the selector
\* contains (ProvidedPath for File and Directory, SearchPath for ExecutableName, the
\* producing source of the candidate otherwise), and no candidate of a source outside
\* the selector is a member of the stream or is queried.
C27_SourceSelected ==
    op.name = "find_interpreter"
    => /\ (pc = "done" /\ result.tag = "Found")
          => /\ contains(sources, result.source)
             /\ request[1] \notin StreamRequests => result.source = ProvidedSource(request)
             /\ request[1] \in StreamRequests
                => /\ pos >= 1
                   /\ stream[pos].ok
                   /\ result.source = stream[pos].source
       /\ request[1] \in StreamRequests
          => \A k \in 1..Len(stream) : contains(sources, stream[k].source)
       /\ (request[1] \notin StreamRequests /\ queried # <<>>)
          => contains(sources, ProvidedSource(request))

\* C27 witness: a selector that leaves sources out, in a world where a left-out source
\* has an executable to offer, and find_interpreter has returned an interpreter
C27_Witness ==
    /\ FindDone
    /\ result.tag = "Found"
    /\ request[1] \in StreamRequests
    /\ ~contains(sources, SearchPath)
    /\ FilesOn(world.PATH) # {}

----------------------------------------------------------------------------
(* Properties of find_default_interpreter (checked under SpecDefault)      *)

DefaultDone == op.name = "find_default_interpreter" /\ final # Pending

\* the directories a default search goes through: those UV_TEST_PYTHON_PATH lists when
\* it is set, else those of PATH
SearchDirs ==
    IF world.UV_TEST_PYTHON_PATH # None THEN world.UV_TEST_PYTHON_PATH[1] ELSE world.PATH[1]

\* the files of one directory that a default search takes as candidates: the executable
\* files called python3 and python, in that order, that are no shims of the Windows
\* Store, then on Windows an executable python.bat; nothing for an entry that is no
\* directory
DirCandidates(dir) ==
    IF ~dir.is_dir THEN <<>>
    ELSE LET HoldsExecutable(name) == name \in DOMAIN dir.files /\ dir.files[name].executable
             names == <<Python3Name(world.windows), GenericName(world.windows)>>
             named == SelectSeq(names, LAMBDA name :
                                    /\ HoldsExecutable(name)
                                    /\ ~(world.windows /\ dir.files[name].store_shim))
         IN [k \in 1..Len(named) |-> dir.files[named[k]]]
            \o (IF world.windows /\ HoldsExecutable("python.bat")
                THEN <<dir.files["python.bat"]>> ELSE <<>>)

\* the candidates of the whole search path, in the order of its directories
PathCandidates == FlatMap(DirCandidates, SearchDirs)

\* the candidates of the search path whose query succeeds, in the same order
HealthyCandidates == SelectSeq(PathCandidates, LAMBDA file : Query(file).ok)

\* the `py` launcher is asked (on Windows only) and fails to list its interpreters
LauncherFails == world.windows /\ ~world.py_list_paths.ok

\* the executables the `py` launcher lists, in its order; none off Windows
LauncherCandidates ==
    IF world.windows /\ world.py_list_paths.ok
    THEN [k \in 1..Len(world.py_list_paths.val) |->
             world.py_list_paths.val[k].executable_path]
    ELSE <<>>

\* C9 (as stated): a default search over the search path never aborts on a candidate
\* whose query fails: it returns the first valid interpreter of the search path with
\* source SearchPath, and NotFound(NoPythonInstallation) when the search path holds no
\* valid interpreter and no other candidate exists.
C9_BadCandidateRejected ==
    DefaultDone
    => /\ HealthyCandidates # <<>>
          => final = Found(SearchPath, Query(HealthyCandidates[1]).interpreter)
       /\ (HealthyCandidates = <<>> /\ LauncherCandidates = <<>> /\ ~LauncherFails)
          => final.tag = "NotFound" /\ final.variant = "NoPythonInstallation"

\* what the candidate `file` of source `source` makes the search return
Decides(source, file) ==
    IF Query(file).ok THEN Found(source, Query(file).interpreter)
    ELSE OuterErr(Query(file).err)

\* C9 (amended): a default search goes through the directories of the search path
\* (UV_TEST_PYTHON_PATH when set, else PATH) and then, on Windows, through the entries
\* of the `py` launcher.  Missing directories, empty directories, files without execute
\* permission and store shims never become candidates and are never queried.  The
\* first candidate is the only one queried and decides the outcome: Found with its
\* source if its query succeeds, else that error as the outer Err.  With no candidate
\* on the search path the outcome is the launcher's: Err if listing fails, its first
\* entry decides if it has one; and when no candidate exists at all the result is
\* NotFound(NoPythonInstallation).
C9_SearchPathDefault ==
    DefaultDone
    => /\ PathCandidates # <<>>
          => /\ queried = <<PathCandidates[1]>>
             /\ final = Decides(SearchPath, PathCandidates[1])
       /\ (PathCandidates = <<>> /\ LauncherFails)
          => /\ queried = <<>>
             /\ final = OuterErr(Error("PyLauncher", ""))
       /\ (PathCandidates = <<>> /\ LauncherCandidates # <<>>)
          => /\ queried = <<LauncherCandidates[1]>>
             /\ final = Decides(PyLauncher, LauncherCandidates[1])
       /\ (PathCandidates = <<>> /\ LauncherCandidates = <<>> /\ ~LauncherFails)
          => /\ queried = <<>>
             /\ final = NotFound("NoPythonInstallation",
                                 <<from_sources({SearchPath, PyLauncher}), Some(Default)>>)

\* on Windows, with a search path that holds only a store shim, the first entry of the
\* `py` launcher has been returned
LauncherDecides ==
    /\ DefaultDone
    /\ world.windows
    /\ \E i \in 1..Len(SearchDirs) :
           \E name \in DOMAIN SearchDirs[i].files : SearchDirs[i].files[name].store_shim
    /\ PathCandidates = <<>>
    /\ final.tag = "Found"
    /\ final.source = PyLauncher

\* with UV_TEST_PYTHON_PATH set, the interpreter of its directory has been returned
\* although PATH holds an interpreter
OverrideDecides ==
    /\ DefaultDone
    /\ world.UV_TEST_PYTHON_PATH # None
    /\ \E i \in 1..Len(world.PATH[1]) :
           \E name \in DOMAIN world.PATH[1][i].files :
               world.PATH[1][i].files[name].executable
    /\ final.tag = "Found"
    /\ final.interpreter.sys_executable \in FilesOn(world.UV_TEST_PYTHON_PATH)

\* on Windows a python.bat of the search path has been returned
BatDecides ==
    /\ DefaultDone
    /\ world.windows
    /\ final.tag = "Found"
    /\ final.source = SearchPath
    /\ queried[1].path = "dir1/python.bat"

\* C9 witness: PATH = <missing>:<empty>:<bad>:<good>, where <bad>/python is a touched
\* file and <good>/python a valid interpreter, and the search returned <good>/python
C9_Witness ==
    /\ DefaultDone
    /\ ~world.windows
    /\ Len(world.PATH[1]) = 4
    /\ ~world.PATH[1][1].is_dir
    /\ world.PATH[1][2].is_dir /\ DOMAIN world.PATH[1][2].files = {}
    /\ DOMAIN world.PATH[1][3].files = {"python"}
    /\ ~world.PATH[1][3].files["python"].executable
    /\ DOMAIN world.PATH[1][4].files = {"python"}
    /\ final.tag = "Found"
    /\ final.source = SearchPath
    /\ final.interpreter.sys_executable = "dir4/python"
    /\ queried = <<world.PATH[1][4].files["python"]>>

----------------------------------------------------------------------------
(* Properties of find_best_interpreter (checked under SpecBest)            *)

BestDone == op.name = "find_best_interpreter" /\ final # Pending

\* what one call find_interpreter(req, selector) returns, computed in one step
FindOutcome(req, selector) ==
    CASE req[1] = "File" -> find_file(req, selector)[1]
      [] req[1] = "Directory" -> find_directory(req, selector)[1]
      [] req[1] = "ExecutableName" -> find_executable_name(req, selector)[1]
      [] OTHER ->
           LET items == python_executables(prefilter(req), selector)
               stops == {i \in 1..Len(items) :
                            find_predicate(req, python_interpreters(items[i]))}
           IN IF stops = {} THEN not_found(req, selector)
              ELSE LET i == CHOOSE k \in stops : \A l \in stops : k <= l
                       res == python_interpreters(items[i])
                   IN IF res.ok THEN Found(res.source, res.interpreter)
                      ELSE OuterErr(res.err)

\* the request of pass 2 for a request that carries a patch
WithoutPatch(req) ==
    IF req[1] = "Version" THEN Version(without_patch(req[2]))
    ELSE ImplementationVersion(req[2], without_patch(req[3]))

CarriesPatch(req) ==
    \/ req[1] = "Version" /\ has_patch(req[2])
    \/ req[1] = "ImplementationVersion" /\ has_patch(req[3])

\* C4: find_best_interpreter tries the exact request, then (for a request with a patch)
\* the request without its patch, then Version(Default), and returns the interpreter of
\* the first pass that finds one; when no pass finds one (and none fails) the result is
\* NotFound(NoPythonInstallation).
C4_BestPasses ==
    BestDone
    => LET selector == from_env(op.system)
           exact == FindOutcome(op.request, selector)
           relaxed == FindOutcome(WithoutPatch(op.request), selector)
           any == FindOutcome(Version(Default), selector)
       IN /\ exact.tag = "Found" => final = exact /\ pass = 1
          /\ (exact.tag = "NotFound" /\ CarriesPatch(op.request) /\ relaxed.tag = "Found")
             => final = relaxed /\ pass = 2
          /\ (/\ exact.tag = "NotFound"
              /\ CarriesPatch(op.request) => relaxed.tag = "NotFound"
              /\ any.tag = "Found")
             => final = any /\ pass = 3
          /\ (/\ exact.tag = "NotFound"
              /\ CarriesPatch(op.request) => relaxed.tag = "NotFound"
              /\ any.tag = "NotFound")
             => /\ final.tag = "NotFound"
                /\ final.variant = "NoPythonInstallation"
                /\ pass = 3

\* C4 witness: a request for 3.12.1 with no exact match; pass 2 returned another patch
\* of 3.12 although an interpreter of another version comes earlier in the stream
C4_Witness ==
    /\ BestDone
    /\ op.request = Version(MajorMinorPatch(3, 12, 1))
    /\ pass = 2
    /\ final.tag = "Found"
    /\ <<final.interpreter.major, final.interpreter.minor>> = <<3, 12>>
    /\ final.interpreter.patch # 1
    /\ FindOutcome(Version(Default), sources).tag = "Found"
    /\ FindOutcome(Version(Default), sources) # final

\* C13: the selector find_best_interpreter gets from SourceSelector::from_env(policy) is
\* {ManagedToolchain} whenever UV_FORCE_MANAGED_PYTHON is set; otherwise
\* {ActiveEnvironment, SearchPath} whenever UV_TEST_PYTHON_PATH is set; otherwise All
\* for Allowed, {ProvidedPath, SearchPath, PyLauncher, ManagedToolchain} for Required
\* and {DiscoveredEnvironment, ActiveEnvironment} for Disallowed; a finite set is never
\* empty.
C13_FromEnv ==
    (op.name = "find_best_interpreter" /\ pass >= 1)
    => /\ world.UV_FORCE_MANAGED_PYTHON # None
          => sources = <<"Some", {ManagedToolchain}>>
       /\ (world.UV_FORCE_MANAGED_PYTHON = None /\ world.UV_TEST_PYTHON_PATH # None)
          => sources = <<"Some", {ActiveEnvironment, SearchPath}>>
       /\ (world.UV_FORCE_MANAGED_PYTHON = None /\ world.UV_TEST_PYTHON_PATH = None)
          => /\ op.system = "Allowed" => sources = <<"All">>
             /\ op.system = "Required"
                => sources = <<"Some", {ProvidedPath, SearchPath, PyLauncher, ManagedToolchain}>>
             /\ op.system = "Disallowed"
                => sources = <<"Some", {DiscoveredEnvironment, ActiveEnvironment}>>
       /\ sources[1] = "Some" => sources[2] # {}

\* C13 witness: both variables are set, the policy is Disallowed, and the selector in
\* use is {ManagedToolchain}
C13_Witness ==
    /\ op.name = "find_best_interpreter"
    /\ pass >= 1
    /\ world.UV_FORCE_MANAGED_PYTHON # None
    /\ world.UV_TEST_PYTHON_PATH # None
    /\ op.system = "Disallowed"
    /\ sources = <<"Some", {ManagedToolchain}>>

\* the interpreter satisfies what the request asks for besides a version: the
\* implementation name, or the location of the executable
SatisfiesFacet(req, interpreter) ==
    CASE req[1] \in {"Implementation", "ImplementationVersion"} ->
           interpreter.implementation_name = req[2]
      [] req[1] = "File" -> interpreter.sys_executable = req[2].path
      [] req[1] = "Directory" ->
           interpreter.sys_executable = virtualenv_python_executable(req[2]).path
      [] req[1] = "ExecutableName" ->
           which(req[2]) # None /\ interpreter.sys_executable = which(req[2])[1].path
      [] OTHER -> TRUE

\* C29: an interpreter returned by find_best_interpreter has the implementation name an
\* Implementation or ImplementationVersion request asks for, and is the interpreter at
\* the location a File, Directory or ExecutableName request names; the Version(Default)
\* pass returns no other interpreter.
C29_BestKeepsFacet ==
    (BestDone /\ final.tag = "Found") => SatisfiesFacet(op.request, final.interpreter)

\* the part of C29 that holds: the interpreter of pass 1 or pass 2 satisfies the facet
FirstPassesKeepFacet ==
    (BestDone /\ final.tag = "Found" /\ pass \in {1, 2})
    => SatisfiesFacet(op.request, final.interpreter)

\* pass 3 returns the first interpreter of the selected sources, whatever was requested
FallbackIsDefaultSearch ==
    (BestDone /\ pass = 3 /\ final.tag = "Found")
    => final = FindOutcome(Version(Default), from_env(op.system))

----------------------------------------------------------------------------
(* Properties of ProjectWorkspace::discover (checked under SpecWorkspace)  *)

DiscoverDone == op.name = "discover" /\ wpc = "done"

\* the manifest toml::from_str reads in directory `dir`, if there is one
ManifestAt(dir) ==
    LET contents == read_to_string(join(dir, PyprojectToml)) IN
    IF contents.ok /\ contents.val.toml
    THEN Some([project |-> contents.val.project,
               workspace |-> contents.val.workspace,
               sources |-> contents.val.sources])
    ELSE None

\* the manifest of `dir` declares a project but no workspace
PlainProject(dir) ==
    /\ ManifestAt(dir) # None
    /\ ManifestAt(dir)[1].project # None
    /\ ManifestAt(dir)[1].workspace = None

DeclaresWorkspace(dir) == ManifestAt(dir) # None /\ ManifestAt(dir)[1].workspace # None

\* the paths an optional list of globs, relative to `root`, matches
GlobHits(root, globs) ==
    IF globs = None THEN {}
    ELSE {e.path : e \in {x \in Range(glob_events(root, globs[1])) : x.tag = "Path"}}

\* the proper ancestors of `path` that hold a pyproject.toml, nearest first
ManifestDirsAbove(path) ==
    SelectSeq(Tail(ancestors(path)), LAMBDA dir : exists(join(dir, PyprojectToml)))

\* the proper ancestors of `path` whose manifest declares a workspace, nearest first
WorkspacesAbove(path) == SelectSeq(Tail(ancestors(path)), DeclaresWorkspace)

\* C5: discover on a plain project that lies inside the members glob of the nearest
\* ancestor manifest, which declares a workspace and does not exclude it, returns that
\* ancestor as workspace_root and members holding the project and the ancestor's project.
C5_AncestorWorkspaceFound ==
    (/\ DiscoverDone
     /\ PlainProject(op.path)
     /\ ManifestDirsAbove(op.path) # <<>>
     /\ DeclaresWorkspace(ManifestDirsAbove(op.path)[1])
     /\ LET root == ManifestDirsAbove(op.path)[1]
            workspace == ManifestAt(root)[1].workspace[1]
        IN /\ op.path \in GlobHits(root, workspace.members)
           /\ op.path \notin GlobHits(root, workspace.exclude)
     /\ wresult.ok)
    => LET root == ManifestDirsAbove(op.path)[1] IN
       /\ wresult.val.workspace_root = root
       /\ ManifestAt(op.path)[1].project[1].name \in DOMAIN wresult.val.workspace_packages
       /\ ManifestAt(root)[1].project # None
          => ManifestAt(root)[1].project[1].name \in DOMAIN wresult.val.workspace_packages

\* C6: discover on a plain project returns workspace_root == project_root, members
\* holding exactly the project itself and empty workspace sources, whenever no ancestor
\* manifest declares a workspace or the nearest ancestor workspace lists the project
\* path in its exclude globs.
C6_StandaloneProject ==
    (/\ DiscoverDone
     /\ PlainProject(op.path)
     /\ \/ WorkspacesAbove(op.path) = <<>>
        \/ /\ WorkspacesAbove(op.path) # <<>>
           /\ op.path \in GlobHits(WorkspacesAbove(op.path)[1],
                                   ManifestAt(WorkspacesAbove(op.path)[1])[1].workspace[1].exclude))
    => LET name == ManifestAt(op.path)[1].project[1].name IN
       /\ wresult.ok
       /\ wresult.val.project_root = op.path
       /\ wresult.val.workspace_root = op.path
       /\ wresult.val.project_name = name
       /\ DOMAIN wresult.val.workspace_packages = {name}
       /\ wresult.val.workspace_packages[name].root = op.path
       /\ wresult.val.workspace_sources = <<>>

\* C6 witness: discover ran on ws/packages/pkg1, which the workspace of ws lists in its
\* members and in its exclude globs, and returned the project as its own workspace
C6_Witness ==
    /\ DiscoverDone
    /\ op.path = <<"ws", "packages", "pkg1">>
    /\ PlainProject(op.path)
    /\ WorkspacesAbove(op.path) # <<>>
    /\ WorkspacesAbove(op.path)[1] = <<"ws">>
    /\ op.path \in GlobHits(<<"ws">>, ManifestAt(<<"ws">>)[1].workspace[1].members)
    /\ op.path \in GlobHits(<<"ws">>, ManifestAt(<<"ws">>)[1].workspace[1].exclude)
    /\ wresult.ok
    /\ wresult.val.workspace_root = op.path

\* C17: discover on a directory that holds no pyproject.toml fails with
\* MissingPyprojectToml, and on a directory whose manifest has no project table fails
\* with MissingProject.
C17_DiscoverErrors ==
    /\ (DiscoverDone /\ ~exists(join(op.path, PyprojectToml)))
       => (~wresult.ok /\ wresult.err.kind = "MissingPyprojectToml")
    /\ (DiscoverDone /\ ManifestAt(op.path) # None /\ ManifestAt(op.path)[1].project = None)
       => (~wresult.ok /\ wresult.err.kind = "MissingProject")

\* the part of C17 about a manifest without a project table
MissingProjectReported ==
    (DiscoverDone /\ ManifestAt(op.path) # None /\ ManifestAt(op.path)[1].project = None)
    => wresult = WErr(DiscoverError("MissingProject", join(op.path, PyprojectToml)))

\* discover never fails with MissingPyprojectToml
MissingPyprojectTomlNeverReported ==
    (DiscoverDone /\ ~wresult.ok) => wresult.err.kind # "MissingPyprojectToml"

\* the ProjectWorkspace that discover or from_pyproject_toml has returned, if any
Returned ==
    IF wpc # "done" \/ ~wresult.ok THEN None
    ELSE IF op.name = "discover" THEN Some(wresult.val)
    ELSE wresult.val

\* path `a` is `p` or an ancestor of `p`
AncestorOrEqual(a, p) == Len(a) <= Len(p) /\ SubSeq(p, 1, Len(a)) = a

\* C18: every ProjectWorkspace returned by discover or from_pyproject_toml has its
\* project_name among the keys of the members map, and its workspace_root is
\* project_root or a proper ancestor of it.
C18_ProjectAmongMembers ==
    Returned # None
    => /\ Returned[1].project_name \in DOMAIN Returned[1].workspace_packages
       /\ AncestorOrEqual(Returned[1].workspace_root, Returned[1].project_root)

\* C18 witness: a ProjectWorkspace has been returned whose members map holds the
\* project and at least one more package
C18_Witness ==
    /\ Returned # None
    /\ Returned[1].project_name \in DOMAIN Returned[1].workspace_packages
    /\ Cardinality(DOMAIN Returned[1].workspace_packages) >= 2

\* discover has returned for a project whose own manifest declares a workspace
OwnWorkspaceDone ==
    /\ DiscoverDone
    /\ DeclaresWorkspace(op.path)
    /\ ManifestAt(op.path)[1].project # None

\* the paths the members globs of the manifest in `root` match
MemberHits(root) == GlobHits(root, ManifestAt(root)[1].workspace[1].members)

\* `dir` holds a manifest without a project table
LacksProject(dir) == ManifestAt(dir) # None /\ ManifestAt(dir)[1].project = None

\* the members map holds the package of directory `dir`, with `dir` as its root
HoldsMember(members, dir) ==
    /\ ManifestAt(dir) # None
    /\ ManifestAt(dir)[1].project # None
    /\ ManifestAt(dir)[1].project[1].name \in DOMAIN members
    /\ members[ManifestAt(dir)[1].project[1].name].root = dir

\* C19: when the discovered project's own manifest declares a workspace, its directory
\* is project_root and workspace_root, and the members map holds the root project and,
\* for every path the members globs match, an entry keyed by that directory's package
\* name whose root is the matched path; a matched directory whose manifest lacks a
\* project table makes discover fail with MissingProject.
C19_OwnWorkspaceMembers ==
    /\ (OwnWorkspaceDone /\ wresult.ok)
       => /\ wresult.val.project_root = op.path
          /\ wresult.val.workspace_root = op.path
          /\ HoldsMember(wresult.val.workspace_packages, op.path)
          /\ \A dir \in MemberHits(op.path) :
                HoldsMember(wresult.val.workspace_packages, dir)
    /\ (OwnWorkspaceDone /\ \E dir \in MemberHits(op.path) : LacksProject(dir))
       => (~wresult.ok /\ wresult.err.kind = "MissingProject")

\* the part of C19 that holds whatever the package names: the roots, the keys of the
\* members map, and a failure of discover when a match lacks a project table
OwnWorkspaceKeys ==
    /\ (OwnWorkspaceDone /\ wresult.ok)
       => /\ wresult.val.project_root = op.path
          /\ wresult.val.workspace_root = op.path
          /\ DOMAIN wresult.val.workspace_packages
               = {ManifestAt(dir)[1].project[1].name : dir \in MemberHits(op.path) \cup {op.path}}
          /\ \A name \in DOMAIN wresult.val.workspace_packages :
                \E dir \in MemberHits(op.path) \cup {op.path} :
                    HoldsMember(wresult.val.workspace_packages, dir)
                    /\ ManifestAt(dir)[1].project[1].name = name
    /\ (OwnWorkspaceDone /\ \E dir \in MemberHits(op.path) : LacksProject(dir))
       => ~wresult.ok

\* the members of C19 when the root project and the matched directories carry
\* different package names
DistinctNamesAllHeld ==
    (/\ OwnWorkspaceDone
     /\ wresult.ok
     /\ \A d1, d2 \in MemberHits(op.path) \cup {op.path} :
           d1 # d2 => ManifestAt(d1)[1].project[1].name # ManifestAt(d2)[1].project[1].name)
    => \A dir \in MemberHits(op.path) \cup {op.path} :
          HoldsMember(wresult.val.workspace_packages, dir)

\* the directories the members globs of the returned workspace match
GlobMembers(workspace) ==
    IF DeclaresWorkspace(workspace.workspace_root)
    THEN MemberHits(workspace.workspace_root)
    ELSE {}

\* the manifest the members map stores for the package of directory `dir`
StoredManifest(members, dir) == members[ManifestAt(dir)[1].project[1].name].pyproject_toml

\* C25: in a returned ProjectWorkspace, the entry of a member found through a members
\* glob stores the manifest of the member's own directory, the one its package name
\* was taken from.
C25_MemberManifestIsOwn ==
    Returned # None
    => \A dir \in GlobMembers(Returned[1]) :
          HoldsMember(Returned[1].workspace_packages, dir)
          => StoredManifest(Returned[1].workspace_packages, dir) = ManifestAt(dir)[1]

\* what from_project stores instead: the manifest of the workspace root
MemberManifestIsRoots ==
    Returned # None
    => \A dir \in GlobMembers(Returned[1]) :
          HoldsMember(Returned[1].workspace_packages, dir)
          => StoredManifest(Returned[1].workspace_packages, dir)
               = ManifestAt(Returned[1].workspace_root)[1]

\* a glob-matched member other than the workspace root is held in a returned workspace
GlobMemberHeld ==
    /\ Returned # None
    /\ \E dir \in GlobMembers(Returned[1]) :
          /\ dir # Returned[1].workspace_root
          /\ HoldsMember(Returned[1].workspace_packages, dir)

\* the `sources` table of the manifest in `dir`, empty if it has none
SourcesAt(dir) ==
    IF ManifestAt(dir)[1].sources = None THEN <<>> ELSE ManifestAt(dir)[1].sources[1]

\* C26: every ProjectWorkspace that discover returns has as workspace_sources the
\* `sources` table of the manifest at its workspace_root (empty if there is none),
\* also when no workspace is declared and workspace_root is project_root.
C26_WorkspaceSources ==
    (DiscoverDone /\ wresult.ok)
    => wresult.val.workspace_sources = SourcesAt(wresult.val.workspace_root)

\* the part of C26 that holds: the sources of a declared workspace are returned, and
\* without a workspace the map is empty whatever the manifest holds
DeclaredWorkspaceSources ==
    (DiscoverDone /\ wresult.ok)
    => wresult.val.workspace_sources
         = IF DeclaresWorkspace(wresult.val.workspace_root)
           THEN SourcesAt(wresult.val.workspace_root)
           ELSE <<>>

\* C28: in every ProjectWorkspace that discover returns, the members entry keyed by
\* project_name has the project's directory as its root: neither the workspace root
\* nor a glob-matched member of the same package name replaces it.
C28_ProjectEntryKept ==
    (DiscoverDone /\ wresult.ok)
    => wresult.val.workspace_packages[wresult.val.project_name].root
         = wresult.val.project_root

\* the entry of C28 is kept when no other directory of the workspace carries the
\* project's package name
ProjectEntryKeptIfNameUnique ==
    (/\ DiscoverDone
     /\ wresult.ok
     /\ \A dir \in GlobMembers(wresult.val) \cup {wresult.val.workspace_root} :
           (dir # wresult.val.project_root /\ ManifestAt(dir)[1].project # None)
           => ManifestAt(dir)[1].project[1].name # wresult.val.project_name)
    => wresult.val.workspace_packages[wresult.val.project_name].root
         = wresult.val.project_root

----------------------------------------------------------------------------
(* Properties of InterpreterRequest::parse and VersionRequest::from_str    *)
(* (checked under SpecParse)                                               *)

ParseDone == op.name = "InterpreterRequest::parse" /\ pc = "done"

\* s is a version: dot-separated components, at most three, each one a u8
IsVersion(s) == VersionRequest_from_str(s).ok

\* the part of s after its first n characters
Suffix(s, n) == SubSeq(s, n + 1, Len(s))

\* the known implementations and the lowercase strings they are written as
CanonicalForm == [cpython |-> <<"c", "p", "y", "t", "h", "o", "n">>,
                  pypy |-> <<"p", "y", "p", "y">>]

\* v starts, in any letter case, with the canonical form of the implementation
StartsWith(v, implementation) ==
    /\ Len(v) >= Len(CanonicalForm[implementation])
    /\ to_ascii_lowercase(SubSeq(v, 1, Len(CanonicalForm[implementation])))
         = CanonicalForm[implementation]

\* what follows the canonical form of the implementation in v
Remainder(v, implementation) == Suffix(v, Len(CanonicalForm[implementation]))

\* the place of the first @ of v, 0 if there is none
FirstAt(v) ==
    IF \E i \in 1..Len(v) : v[i] = "@"
    THEN CHOOSE i \in 1..Len(v) : v[i] = "@" /\ \A j \in 1..(i - 1) : v[j] # "@"
    ELSE 0

\* rule k of the parser succeeds on the string v
RuleSucceeds(k, v) ==
    CASE k = 1 -> IsVersion(v)
      [] k = 2 -> /\ Len(v) >= 6
                  /\ SubSeq(v, 1, 6) = <<"p", "y", "t", "h", "o", "n">>
                  /\ IsVersion(Suffix(v, 6))
      [] k = 3 -> /\ FirstAt(v) # 0
                  /\ \E implementation \in DOMAIN CanonicalForm :
                         to_ascii_lowercase(SubSeq(v, 1, FirstAt(v) - 1))
                           = CanonicalForm[implementation]
                  /\ IsVersion(Suffix(v, FirstAt(v)))
      [] k = 4 -> \E implementation \in DOMAIN CanonicalForm :
                      /\ StartsWith(v, implementation)
                      /\ \/ Remainder(v, implementation) = <<>>
                         \/ IsVersion(Remainder(v, implementation))
      [] k = 5 -> v \in world.dirs
      [] k = 6 -> \E i \in 1..Len(v) : v[i] = (IF world.windows THEN "\\" ELSE "/")
      [] k = 7 -> TRUE

\* what rule k returns for the string v, when it succeeds
RuleResult(k, v) ==
    CASE k = 1 -> Version(VersionRequest_from_str(v).value)
      [] k = 2 -> Version(VersionRequest_from_str(Suffix(v, 6)).value)
      [] k = 3 -> LET implementation ==
                          CHOOSE name \in DOMAIN CanonicalForm :
                              to_ascii_lowercase(SubSeq(v, 1, FirstAt(v) - 1))
                                = CanonicalForm[name]
                  IN ImplementationVersion(implementation,
                         VersionRequest_from_str(Suffix(v, FirstAt(v))).value)
      [] k = 4 -> LET implementation ==
                          CHOOSE name \in DOMAIN CanonicalForm :
                              /\ StartsWith(v, name)
                              /\ \/ Remainder(v, name) = <<>>
                                 \/ IsVersion(Remainder(v, name))
                  IN IF Remainder(v, implementation) = <<>>
                     THEN Implementation(implementation)
                     ELSE ImplementationVersion(implementation,
                              VersionRequest_from_str(Remainder(v, implementation)).value)
      [] k = 5 -> Directory(v)
      [] k = 6 -> File(v)
      [] k = 7 -> ExecutableName(v)

FirstRule(v) == CHOOSE k \in 1..7 : RuleSucceeds(k, v) /\ \A j \in 1..(k - 1) : ~RuleSucceeds(j, v)

\* C14: InterpreterRequest::parse returns a request for every string, and it is the
\* request of the first rule that succeeds among (1) the whole string is a version,
\* (2) python followed by a version, (3) implementation@version, (4) an implementation
\* name in any letter case followed by nothing or a version, (5) an existing
\* directory, (6) a string with the platform's path separator, (7) an executable name.
C14_FirstRuleWins ==
    ParseDone
    => /\ result[1] \in {"Version", "ImplementationVersion", "Implementation",
                         "Directory", "File", "ExecutableName"}
       /\ result = RuleResult(FirstRule(op.value), op.value)

\* C14 witness: parse has returned Implementation(pypy) for the string PyPy, on which
\* rule 4 succeeds at the second known implementation, although the string also names
\* an existing directory
C14_Witness ==
    /\ ParseDone
    /\ op.value = <<"P", "y", "P", "y">>
    /\ RuleSucceeds(5, op.value)
    /\ result = Implementation("pypy")

\* parse has returned a Version for a version that also names an existing directory
VersionBeforeDirectory ==
    /\ ParseDone
    /\ RuleSucceeds(1, op.value)
    /\ RuleSucceeds(5, op.value)
    /\ result[1] = "Version"

\* the string pypy@3.12 is the request ImplementationVersion(pypy, MajorMinor(3, 12))
PypyAtVersion ==
    (ParseDone /\ op.value = <<"p", "y", "p", "y", "@", "3", ".", "1", "2">>)
    => result = ImplementationVersion("pypy", MajorMinor(3, 12))

\* the implementation rules: cpython3.12.1 and pypy are implementation requests, and a
\* string that only starts like one (py, pypyfoo, cpython@foo) is not
ImplementationRulesReached ==
    /\ ParseDone
    /\ \/ op.value = <<"p", "y", "p", "y", "f", "o", "o">> /\ result[1] = "ExecutableName"
       \/ op.value = <<"p", "y">> /\ result[1] = "ExecutableName"

\* C15: InterpreterRequest::parse maps the bare string python to Version(Default)
C15_BarePythonIsDefault ==
    (ParseDone /\ op.value = <<"p", "y", "t", "h", "o", "n">>)
    => result = Version(Default)

FromStrDone == op.name = "VersionRequest::from_str" /\ pc # "idle"

\* every piece of s between dots
AllComponents(s) == splitn(Len(s) + 1, ".", s)

\* c is one or more decimal digits
IsDecimal(c) == c # <<>> /\ \A i \in 1..Len(c) : IsDigit(c[i])

\* the number a string of decimal digits denotes
RECURSIVE DecimalValue(_)
DecimalValue(c) ==
    IF c = <<>> THEN 0
    ELSE DecimalValue(SubSeq(c, 1, Len(c) - 1)) * 10 + to_digit(c[Len(c)])

\* s is "M", "M.m" or "M.m.p" for numbers M, m, p in 0..=255 as display writes them
IsCanonical(s) ==
    /\ Len(AllComponents(s)) <= 3
    /\ \A i \in 1..Len(AllComponents(s)) :
          \E n \in 0..U8_MAX : AllComponents(s)[i] = u8_to_string(n)

\* the request "M", "M.m" or "M.m.p" stands for
CanonicalRequest(s) ==
    LET cs == AllComponents(s)
    IN  CASE Len(cs) = 1 -> Major(DecimalValue(cs[1]))
          [] Len(cs) = 2 -> MajorMinor(DecimalValue(cs[1]), DecimalValue(cs[2]))
          [] Len(cs) = 3 -> MajorMinorPatch(DecimalValue(cs[1]), DecimalValue(cs[2]),
                                            DecimalValue(cs[3]))

\* s has a component above 255, a component that is not decimal, an empty component,
\* or a fourth component
IsMalformed(s) ==
    \/ Len(AllComponents(s)) > 3
    \/ \E i \in 1..Len(AllComponents(s)) :
          \/ ~IsDecimal(AllComponents(s)[i])
          \/ DecimalValue(AllComponents(s)[i]) > U8_MAX

\* C16: VersionRequest::from_str maps "M", "M.m" and "M.m.p" with M, m, p in 0..=255
\* to Major(M), MajorMinor(M, m) and MajorMinorPatch(M, m, p), whose display is the
\* same string; a component above 255, a component that is not decimal, an empty
\* component or a fourth component makes it fail.
C16_StrictRoundTrip ==
    /\ (FromStrDone /\ IsCanonical(op.value))
       => /\ result = [ok |-> TRUE, value |-> CanonicalRequest(op.value)]
          /\ pc = "done" => final = op.value
    /\ (FromStrDone /\ IsMalformed(op.value)) => ~result.ok

\* the part of C16 about the strings display writes: they parse to the request they
\* stand for, and display gives them back
CanonicalRoundTrip ==
    (FromStrDone /\ IsCanonical(op.value))
    => /\ result = [ok |-> TRUE, value |-> CanonicalRequest(op.value)]
       /\ pc = "done" => final = op.value

\* the part of C16 about failures, with a component counted as decimal when it is an
\* optional + followed by decimal digits
SignedMalformedFails ==
    (/\ FromStrDone
     /\ \/ Len(AllComponents(op.value)) > 3
        \/ \E i \in 1..Len(AllComponents(op.value)) :
              LET c == AllComponents(op.value)[i]
                  digits == IF c # <<>> /\ c[1] = "+" THEN Tail(c) ELSE c
              IN  ~IsDecimal(digits) \/ DecimalValue(digits) > U8_MAX)
    => ~result.ok

----------------------------------------------------------------------------
(* Properties of PythonEnvironment::lock (checked under SpecLock)          *)

\* environment i has taken its lock
Locked(i) == op.name = "lock" /\ result[i] # None

\* environment i has neither a --target nor a virtual environment
IsGlobal(i) ==
    /\ op.environments[i].interpreter.target = None
    /\ ~op.environments[i].interpreter.is_virtualenv

\* C20: lock takes the file .lock beneath the target root when the interpreter has a
\* --target, virtual environment or not; else .lock beneath the environment root when
\* the interpreter is a virtual environment; otherwise a file in the temp directory,
\* the same one for two environments with the same root.
C20_LockPrecedence ==
    op.name = "lock"
    => \A i \in 1..Len(op.environments) :
          Locked(i)
          => LET self == op.environments[i]
                 path == result[i][1].path
             IN  /\ self.interpreter.target # None
                    => path = self.interpreter.target[1].root \o <<".lock">>
                 /\ (self.interpreter.target = None /\ self.interpreter.is_virtualenv)
                    => path = self.root \o <<".lock">>
                 /\ IsGlobal(i)
                    => /\ SubSeq(path, 1, Len(path) - 1) = world.temp_dir
                       /\ \A j \in 1..Len(op.environments) :
                             (Locked(j) /\ IsGlobal(j) /\ op.environments[j].root = self.root)
                             => result[j][1].path = path

\* two environments without --target and virtual environment, with the same root, hold
\* the same lock in the temp directory
SharedGlobalLock ==
    /\ op.name = "lock"
    /\ \E i, j \in 1..Len(op.environments) :
          /\ i # j
          /\ Locked(i) /\ Locked(j)
          /\ IsGlobal(i) /\ IsGlobal(j)
          /\ op.environments[i].root = op.environments[j].root
          /\ result[i][1].path = result[j][1].path

\* C20 witness: one environment with a --target that is also a virtual environment
\* holds the lock beneath its target root, and two environments without --target and
\* virtual environment, with the same root, hold the same lock in the temp directory
C20_Witness ==
    /\ SharedGlobalLock
    /\ \E i \in 1..Len(op.environments) :
          /\ Locked(i)
          /\ op.environments[i].interpreter.target # None
          /\ op.environments[i].interpreter.is_virtualenv
          /\ op.environments[i].interpreter.target[1].root # op.environments[i].root
          /\ result[i][1].path = op.environments[i].interpreter.target[1].root \o <<".lock">>

----------------------------------------------------------------------------
(* Properties of python_executables_from_search_path and possible_names    *)
(* (checked under SpecSearchPath)                                          *)

ScanDone == op.name = "python_executables_from_search_path" /\ pc = "done"

\* the entries of the search path in use
SearchEntries ==
    IF world.UV_TEST_PYTHON_PATH # None THEN world.UV_TEST_PYTHON_PATH[1] ELSE world.PATH[1]

\* the names a scan for op.version looks for, most specific first
NamesSought == Flatten(possible_names(IF op.version = None THEN Default ELSE op.version[1]))

\* the number of the search-path entry that holds `file`
EntryOf(file) ==
    CHOOSE d \in 1..Len(SearchEntries) :
        \E name \in DOMAIN SearchEntries[d].files : SearchEntries[d].files[name] = file

\* the name `file` has in its directory
NameOf(file) ==
    CHOOSE name \in DOMAIN SearchEntries[EntryOf(file)].files :
        SearchEntries[EntryOf(file)].files[name] = file

\* the place of a name among the names sought; python.bat comes after them
NamePlace(name) ==
    IF \E k \in 1..Len(NamesSought) : NamesSought[k] = name
    THEN CHOOSE k \in 1..Len(NamesSought) : NamesSought[k] = name
    ELSE Len(NamesSought) + 1

\* C21: python_executables_from_search_path yields its candidates directory by
\* directory in search-path order, and within a directory in possible_names order, most
\* specific first; every candidate is a file of a search-path entry that is a directory
\* and has the name it was looked up by in that directory (on Windows python.bat of the
\* directory may follow the named candidates).
C21_DirectoryMajorNameMinor ==
    ScanDone
    => /\ \A i \in 1..Len(result) :
             \E d \in 1..Len(SearchEntries) :
                 /\ SearchEntries[d].is_dir
                 /\ \E name \in DOMAIN SearchEntries[d].files :
                        /\ SearchEntries[d].files[name] = result[i]
                        /\ \/ \E k \in 1..Len(NamesSought) : NamesSought[k] = name
                           \/ world.windows /\ name = "python.bat"
       /\ \A i, j \in 1..Len(result) :
             i < j
             => \/ EntryOf(result[i]) < EntryOf(result[j])
                \/ /\ EntryOf(result[i]) = EntryOf(result[j])
                   /\ NamePlace(NameOf(result[i])) < NamePlace(NameOf(result[j]))
       /\ \A d \in 1..Len(SearchEntries), k \in 1..Len(NamesSought) :
             (SearchEntries[d].is_dir /\ NamesSought[k] \in DOMAIN SearchEntries[d].files)
             => \E i \in 1..Len(result) : result[i] = SearchEntries[d].files[NamesSought[k]]

\* C21 witness: a scan has yielded two or more candidates from each of two directories
C21_Witness ==
    /\ ScanDone
    /\ Len(result) >= 4
    /\ EntryOf(result[1]) = EntryOf(result[2])
    /\ EntryOf(result[Len(result)]) = EntryOf(result[Len(result) - 1])
    /\ EntryOf(result[1]) # EntryOf(result[Len(result)])

NamesDone == op.name = "possible_names" /\ pc = "done"

\* a version component as format!() writes it
Decimal(n) ==
    CASE n = 0 -> "0"
      [] n = 3 -> "3"
      [] n = 12 -> "12"
      [] n = 255 -> "255"

\* C22: on POSIX possible_names returns Default -> [python3, python]; Major(M) ->
\* [pythonM, python]; MajorMinor(M, m) -> [pythonM.m, pythonM, python];
\* MajorMinorPatch(M, m, p) -> [pythonM.m.p, pythonM.m, pythonM, python]; padded with
\* nulls to length four, the names forming a prefix, pairwise distinct, the last of
\* them python.
C22_PossibleNamesPosix ==
    (NamesDone /\ ~world.windows)
    => LET v == op.version
           names == Flatten(result)
       IN  /\ v[1] = "Default" => names = <<"python3", "python">>
           /\ v[1] = "Major" => names = <<"python" \o Decimal(v[2]), "python">>
           /\ v[1] = "MajorMinor"
              => names = <<"python" \o Decimal(v[2]) \o "." \o Decimal(v[3]),
                           "python" \o Decimal(v[2]),
                           "python">>
           /\ v[1] = "MajorMinorPatch"
              => names = <<"python" \o Decimal(v[2]) \o "." \o Decimal(v[3]) \o "."
                               \o Decimal(v[4]),
                           "python" \o Decimal(v[2]) \o "." \o Decimal(v[3]),
                           "python" \o Decimal(v[2]),
                           "python">>
           /\ Len(result) = 4
           /\ \A i \in 1..4 : result[i] = (IF i <= Len(names) THEN Some(names[i]) ELSE None)
           /\ \A i, j \in 1..Len(names) : i # j => names[i] # names[j]
           /\ names[Len(names)] = "python"

\* C22 witness: possible_names has returned four names for MajorMinorPatch(3, 12, 255)
\* on POSIX
C22_Witness ==
    /\ NamesDone
    /\ ~world.windows
    /\ op.version = MajorMinorPatch(3, 12, 255)
    /\ result = <<Some("python3.12.255"), Some("python3.12"), Some("python3"), Some("python")>>

----------------------------------------------------------------------------
(* Properties of PythonEnvironment::find (checked under SpecEnvironment)   *)

EnvironmentDone == op.name = "PythonEnvironment::find" /\ final # Pending

\* PythonEnvironment::find was called without an explicit python
NoPythonGiven == op.name = "PythonEnvironment::find" /\ op.python = None

\* the search of from_virtualenv and the one of from_default_python, in one step each
VirtualenvSearch == FindOutcome(Version(Default), virtualenvs)
DefaultSearch == FindOutcome(Version(Default), from_sources({SearchPath, PyLauncher}))

\* C30: without an explicit python, PythonEnvironment::find follows the system policy.
\* Required runs the default search alone.  Allowed runs the virtual-environment search
\* and returns its interpreter or its error, except that NotFound leads to the default
\* search, whose outcome is returned.  Disallowed returns the outcome of the
\* virtual-environment search, NotFound included, so its interpreter comes from a
\* virtual-environment source.
C30_SystemPolicy ==
    /\ (NoPythonGiven /\ op.system = "Required" /\ pc # "idle")
       => /\ sources = from_sources({SearchPath, PyLauncher})
          /\ pass = 1
          /\ EnvironmentDone => final = into_environment(DefaultSearch)
    /\ (NoPythonGiven /\ op.system = "Allowed" /\ pc # "idle")
       => /\ pass = 1 => sources = virtualenvs
          /\ pass = 2 => sources = from_sources({SearchPath, PyLauncher})
    /\ (NoPythonGiven /\ op.system = "Allowed" /\ EnvironmentDone)
       => /\ VirtualenvSearch.tag = "NotFound"
             => pass = 2 /\ final = into_environment(DefaultSearch)
          /\ VirtualenvSearch.tag # "NotFound"
             => pass = 1 /\ final = into_environment(VirtualenvSearch)
    /\ (NoPythonGiven /\ op.system = "Disallowed" /\ pc # "idle")
       => /\ sources = virtualenvs
          /\ pass = 1
          /\ EnvironmentDone
             => /\ final = into_environment(VirtualenvSearch)
                /\ final.tag = "Ok"
                   => result.source \in {DiscoveredEnvironment, ActiveEnvironment}

\* C30 witness: with no virtual environment about and an interpreter on the search
\* path, Allowed has returned the interpreter of the default search
C30_Witness ==
    /\ NoPythonGiven
    /\ EnvironmentDone
    /\ VirtualenvSearch.tag = "NotFound"
    /\ DefaultSearch.tag = "Found"
    /\ op.system = "Allowed"
    /\ final.tag = "Ok"
    /\ pass = 2

\* in the same world Disallowed has returned NotFound
DisallowedNotFound ==
    /\ NoPythonGiven
    /\ EnvironmentDone
    /\ VirtualenvSearch.tag = "NotFound"
    /\ DefaultSearch.tag = "Found"
    /\ op.system = "Disallowed"
    /\ final.tag = "Err"
    /\ final.err.kind = "NotFound"

\* an error of the virtual-environment search other than NotFound is returned under
\* Allowed, with an interpreter on the search path left unused
AllowedErrorPropagated ==
    /\ NoPythonGiven
    /\ EnvironmentDone
    /\ op.system = "Allowed"
    /\ VirtualenvSearch.tag = "Err"
    /\ DefaultSearch.tag = "Found"
    /\ final = VirtualenvSearch

====
